---- MODULE Spec2Model ----
(***************************************************************************)
(* Model of the injection scheduling core of the FATORI-V fault-injection  *)
(* system: the ratio-aware pool builders (RatioSelector, the two-level     *)
(* module builder with WeightedModuleSelector) and the TargetPool cursor.  *)
(*                                                                         *)
(* Conventions.  A ratio (a Python float in the source) is the exact       *)
(* fraction <<num, den>>; comparisons with it are cross-multiplied.  An    *)
(* Optional[int] is <<>> for None and <<n>> for the integer n.  List       *)
(* indices are 0-based as in the source; element i of a list L is L[i+1].  *)
(* A target is a record [kind, module, id]: module is the library key the  *)
(* target was built from, id its position in that candidate list.          *)
(***************************************************************************)
EXTENDS Integers, Sequences, FiniteSets, TLC

\* ------------------------------------------------------------------ bounds

MaxDen == 3         \* ratios are the reduced fractions n/d with d <= MaxDen
MaxLen == 2         \* candidates of one kind handed to a RatioSelector
MaxModLen == 1      \* candidates of one kind in one module's library
MaxCount == 3       \* largest requested pool size (target_count, tpool_size)
SmallCap == 2       \* an absolute cap that binds
MaxCap == 5         \* an absolute cap above every bounded candidate total

TPOOL_ABSOLUTE_CAP == 1000000

\* ------------------------------------------------------------ input sets

Min(a, b) == IF a <= b THEN a ELSE b

RECURSIVE Gcd(_, _)
Gcd(a, b) == IF b = 0 THEN a ELSE Gcd(b, a % b)

Ratios == {r \in (0..MaxDen) \X (1..MaxDen) : r[1] <= r[2] /\ Gcd(r[1], r[2]) = 1}

TargetCounts == {<<>>} \cup {<<n>> : n \in 0..MaxCount}

AbsCaps == {SmallCap, MaxCap}

Builders == {"sequential", "random", "two_level"}

\* The threads that call SemTransport.read_lines.
Callers == {"main", "monitor"}

selected_modules == <<"alu", "lsu", "fpu">>

ModuleNames == {selected_modules[i] : i \in 1..Len(selected_modules)}

ModuleModes == {"round_robin", "weighted", "random"}

\* The list of n candidates of one kind built for library key m.
Candidates(kind, m, n) == [i \in 1..n |-> [kind |-> kind, module |-> m, id |-> i]]

VARIABLES
    builder,            \* which builder runs
    ratio, repeat, ratio_strict, target_count,
    break_repeat_only, absolute_cap,
    config_targets, reg_targets,        \* RatioSelector: the candidate lists
    config_idx, reg_idx,                \* sequential builder: list cursors
    available_config, available_reg,    \* random builder: not yet drawn
    config_selected, reg_selected,      \* RatioSelector counters
    pick_reg,                           \* RatioSelector builders: last decision
    max_iterations, iteration,          \* the builders' for loop
    pool,                               \* the list / TargetPool being built
    pc,                                 \* "loop" | "done"
    module_library,                     \* two-level: module -> lists and cursors
    weights, module_mode,               \* WeightedModuleSelector inputs
    selection_counts, round_robin_index,
    config_count, reg_count,            \* two-level: global kind counters
    need_reg, scheduled_module,         \* two-level: last iteration's locals
    targets, position,                  \* TargetPool._targets, ._position
    pop_result,                         \* what the last pop_next returned
    op,                                 \* the last TargetPool operation called
    drained,                            \* what pop_next returned since the last reset
    last_drain,                         \* <<the previous complete drain>> or <<>>
    ctor_args, ctor_outcome,            \* TargetSpec(...): arguments, "ok" | "ValueError"
    made,                               \* the TargetSpec objects constructed
    factory_args, factory_outcome,      \* a profile or selector factory call
    constructed,                        \* the profiles and selectors constructed
    first_pick,                         \* <<kind a constructed selector picked first>>
    law,                                \* which time profile runs
    tpc,                                \* where run(controller) stands
    exception,                          \* what run() raised, or "none"
    target,                             \* run()'s local: <<target>> or None
    stop_flag, termination_reason,      \* InjectionController fields
    total_injections, successes, failures,
    inject_result,                      \* what the last inject_target returned
    backend_outcome,                    \* what the backend did in it, or "none"
    sync_enabled, signal_file,          \* BenchmarkSync: enabled, file exists
    last_check_time, sync_count,        \* BenchmarkSync.last_check_time, .injection_count
    check_interval_s, check_every_n,
    clock,                              \* time.monotonic()
    start_t, duration_s, now, deadline, \* run()'s locals and self._duration_s
    period_s, injection_count,          \* uniform
    current_t, mm_state,                \* mmpp2: virtual time, self._state
    p_low_to_high, p_high_to_low,       \* mmpp2: probabilities, in 1/PDen
    start_state, rng,                   \* mmpp2: start_state, self._rng
    log_sink,                           \* the log file: "ok", or "failing" (writes raise)
    bursts, burst_count, phase,         \* microburst
    interval_start, idle_rate_hz,
    interval_k,                         \* targets taken in the interval in hand
    idle_duration_s, burst_duration_s,
    schedule, trace_repeat,             \* trace: self._schedule, self._repeat
    cycle, entry, cycle_start,
    slept,                              \* controller.sleep slept for the target in hand
    dispatched,                         \* the backend calls made, in order
    gated,                              \* targets refused by the benchmark check
    stop_at,                            \* <<backend calls made when stop was first requested>>
    sem_pc,                             \* SemProtocol.inject_lfa: "idle", "collect", "returned"
    sem_clock,                          \* time.monotonic(), in read timeouts
    uart_tx,                            \* the command lines written to the UART
    rx_lines, sem_emitted,              \* transport._lines; lines the SEM has sent
    sem_deadline, collected,            \* _collect_short_window: deadline, out
    read_calls,                         \* read_lines calls of the inject_lfa in hand
    sem_log,                            \* what log_sem_command recorded
    lfa_result,                         \* what _inject_config_bit returned
    exit_code,                          \* <<what main returned>>
    campaign_end_log,                   \* <<the statistics and reason logged at the end>>
    cv_owner,                           \* SemTransport._cv: the thread holding it, or "free"
    rl_pc, rl_out, rl_deadline,         \* read_lines, per caller: position, out, deadline
    framed,                             \* the lines the reader thread framed, in order
    returned                            \* what read_lines calls returned, in order

buildVars == <<builder, ratio, repeat, ratio_strict, target_count,
               break_repeat_only, absolute_cap, config_targets, reg_targets,
               config_idx, reg_idx, available_config, available_reg,
               config_selected, reg_selected, pick_reg, max_iterations,
               iteration, pool, pc, module_library, weights, module_mode,
               selection_counts, round_robin_index, config_count, reg_count,
               need_reg, scheduled_module>>

ratioSelectorVars == <<config_targets, reg_targets, config_idx, reg_idx,
                       available_config, available_reg, config_selected,
                       reg_selected, pick_reg>>

twoLevelVars == <<module_library, weights, module_mode, selection_counts,
                  round_robin_index, config_count, reg_count, need_reg,
                  scheduled_module>>

settingVars == <<builder, ratio, repeat, ratio_strict, target_count,
                 break_repeat_only, absolute_cap, max_iterations>>

poolVars == <<targets, position, pop_result, op, drained, last_drain>>

factoryVars == <<factory_args, factory_outcome, constructed, first_pick>>

semVars == <<sem_pc, sem_clock, uart_tx, rx_lines, sem_emitted, sem_deadline,
             collected, read_calls, sem_log, lfa_result>>

mainVars == <<exit_code, campaign_end_log>>

transportVars == <<cv_owner, rl_pc, rl_out, rl_deadline, framed, returned>>

targetVars == <<ctor_args, ctor_outcome, made, factoryVars, semVars, mainVars,
                transportVars>>

controllerVars == <<stop_flag, termination_reason, total_injections, successes,
                    failures, inject_result, backend_outcome, dispatched, gated,
                    stop_at>>

syncVars == <<sync_enabled, signal_file, last_check_time, sync_count,
              check_interval_s, check_every_n>>

\* What run() and inject_target read and never write: the parameters of the
\* time profile, and the state of the logging sink.
lawParams == <<law, duration_s, period_s, p_low_to_high, p_high_to_low,
               start_state, log_sink, bursts,
               idle_rate_hz, idle_duration_s, burst_duration_s, schedule,
               trace_repeat>>

lawLocals == <<start_t, now, deadline, injection_count, current_t, mm_state, rng,
               burst_count, phase, interval_start, interval_k, cycle, entry, cycle_start>>

campaignVars == <<controllerVars, syncVars, lawParams, lawLocals, tpc, exception,
                  target, clock, slept>>

vars == <<buildVars, poolVars, targetVars, campaignVars, campaignVars>>

\* --------------------------------------------------------- RatioSelector

\* Python truthiness of an Optional[int]: None and 0 are falsy.
Truthy(tc) == tc # <<>> /\ tc[1] # 0

\* Mutant: "behind on REGs" tested with <= (a REG is also picked when exactly
\* on the ideal count).
ShouldPickReg_AtOrBehind(r, cs, rs) ==
    IF r[1] = r[2] THEN TRUE
    ELSE IF r[1] = 0 THEN FALSE
    ELSE LET total == cs + rs IN
         IF total = 0 THEN 2 * r[1] > r[2]
         ELSE rs * r[2] <= total * r[1]

\* Mutant: the comparison reversed (a REG is picked when ahead on REGs).
ShouldPickReg_Reversed(r, cs, rs) ==
    IF r[1] = r[2] THEN TRUE
    ELSE IF r[1] = 0 THEN FALSE
    ELSE LET total == cs + rs IN
         IF total = 0 THEN 2 * r[1] > r[2]
         ELSE rs * r[2] > total * r[1]

ShouldPickReg(r, cs, rs) ==
    IF r[1] = r[2] THEN TRUE
    ELSE IF r[1] = 0 THEN FALSE
    ELSE LET total == cs + rs IN
         IF total = 0 THEN 2 * r[1] > r[2]
         ELSE rs * r[2] < total * r[1]

\* max_iterations of build_sequential_intermixed_pool.
SequentialMaxIterations(bro, rep, tc, cap, nC, nR) ==
    LET total_available == nC + nR
        exhaust == IF total_available > cap THEN cap ELSE total_available
    IN  IF bro
        THEN IF rep /\ Truthy(tc) THEN Min(tc[1], cap)
             ELSE IF rep THEN cap
             ELSE exhaust
        ELSE IF Truthy(tc) THEN Min(tc[1], cap)
             ELSE IF rep THEN cap
             ELSE exhaust

\* The branch one iteration of the sequential loop takes:
\* "reg" / "config" (the kind asked for), "config_fb" / "reg_fb" (lenient
\* fallback to the other kind), "break".
\* Mutant: ratio_strict is not consulted (the fallback is always taken).
SequentialBranch_IgnoreStrict(pr, regLeft, cfgLeft, rep, strict) ==
    IF pr
    THEN IF regLeft THEN "reg"
         ELSE IF ~rep /\ cfgLeft THEN "config_fb"
         ELSE "break"
    ELSE IF cfgLeft THEN "config"
         ELSE IF ~rep /\ regLeft THEN "reg_fb"
         ELSE "break"

\* Mutant: no fallback to the other kind (every exhaustion ends the loop).
SequentialBranch_NoFallback(pr, regLeft, cfgLeft, rep, strict) ==
    IF pr
    THEN IF regLeft THEN "reg" ELSE "break"
    ELSE IF cfgLeft THEN "config" ELSE "break"

\* Mutant: strict mode stops as soon as either list is used up, before the
\* rule asks for the exhausted kind.
SequentialBranch_StopAtExhaustion(pr, regLeft, cfgLeft, rep, strict) ==
    IF strict /\ ~rep /\ ~(regLeft /\ cfgLeft) THEN "break"
    ELSE IF pr
    THEN IF regLeft THEN "reg"
         ELSE IF ~rep /\ cfgLeft THEN (IF strict THEN "break" ELSE "config_fb")
         ELSE "break"
    ELSE IF cfgLeft THEN "config"
         ELSE IF ~rep /\ regLeft THEN (IF strict THEN "break" ELSE "reg_fb")
         ELSE "break"

SequentialBranch(pr, regLeft, cfgLeft, rep, strict) ==
    IF pr
    THEN IF regLeft THEN "reg"
         ELSE IF ~rep /\ cfgLeft THEN (IF strict THEN "break" ELSE "config_fb")
         ELSE "break"
    ELSE IF cfgLeft THEN "config"
         ELSE IF ~rep /\ regLeft THEN (IF strict THEN "break" ELSE "reg_fb")
         ELSE "break"

\* The cursor after taking one element, with the repeat wrap of the asked-for
\* branch (the fallback branches run in non-repeat mode only and never wrap).
Advance(idx, len, wrap) == IF wrap /\ idx + 1 >= len THEN 0 ELSE idx + 1

SequentialIteration ==
    /\ builder = "sequential"
    /\ pc = "loop"
    /\ LET pr == ShouldPickReg(ratio, config_selected, reg_selected)
           br == SequentialBranch(pr, reg_idx < Len(reg_targets),
                                  config_idx < Len(config_targets),
                                  repeat, ratio_strict)
           takeReg == br \in {"reg", "reg_fb"}
           takeCfg == br \in {"config", "config_fb"}
           ci == IF takeCfg
                 THEN Advance(config_idx, Len(config_targets), repeat /\ br = "config")
                 ELSE config_idx
           ri == IF takeReg
                 THEN Advance(reg_idx, Len(reg_targets), repeat /\ br = "reg")
                 ELSE reg_idx
           exhausted == ~repeat /\ ci >= Len(config_targets) /\ ri >= Len(reg_targets)
       IN  /\ pick_reg' = pr
           /\ pool' = IF takeReg THEN Append(pool, reg_targets[reg_idx + 1])
                      ELSE IF takeCfg THEN Append(pool, config_targets[config_idx + 1])
                      ELSE pool
           /\ config_idx' = ci
           /\ reg_idx' = ri
           /\ config_selected' = config_selected + (IF takeCfg THEN 1 ELSE 0)
           /\ reg_selected' = reg_selected + (IF takeReg THEN 1 ELSE 0)
           /\ iteration' = iteration + 1
           /\ pc' = IF br = "break" \/ exhausted \/ iteration + 1 >= max_iterations
                    THEN "done" ELSE "loop"
    /\ UNCHANGED <<settingVars, twoLevelVars, poolVars, targetVars, campaignVars, config_targets,
                   reg_targets, available_config, available_reg>>

\* max_iterations of build_random_intermixed_pool.
RandomMaxIterations(bro, rep, tc, cap, nC, nR) ==
    LET total_available == nC + nR IN
    IF bro
    THEN IF rep /\ Truthy(tc) THEN Min(tc[1], cap)
         ELSE IF rep THEN cap
         ELSE Min(total_available, cap)
    ELSE IF Truthy(tc) THEN Min(tc[1], cap)
         ELSE IF rep THEN cap
         ELSE Min(total_available, cap)

\* The branch one iteration of the random loop takes; regLeft and cfgLeft say
\* whether the list drawn from (the full list with replacement, the remaining
\* list without) is non-empty.  The same cascade serves both repeat settings.
RandomBranch(pr, regLeft, cfgLeft, strict) ==
    IF pr
    THEN IF regLeft THEN "reg"
         ELSE IF cfgLeft /\ ~strict THEN "config_fb"
         ELSE "break"
    ELSE IF cfgLeft THEN "config"
         ELSE IF regLeft /\ ~strict THEN "reg_fb"
         ELSE "break"

\* Mutant: the target drawn stays in the list it was drawn from.
RemoveAt_Keeps(s, i) == s

\* list.remove of the element at position i (candidates are pairwise distinct).
RemoveAt(s, i) == SubSeq(s, 1, i - 1) \o SubSeq(s, i + 1, Len(s))

RandomIteration ==
    /\ builder = "random"
    /\ pc = "loop"
    /\ LET pr == ShouldPickReg(ratio, config_selected, reg_selected)
           regSrc == IF repeat THEN reg_targets ELSE available_reg
           cfgSrc == IF repeat THEN config_targets ELSE available_config
           br == RandomBranch(pr, Len(regSrc) > 0, Len(cfgSrc) > 0, ratio_strict)
           takeReg == br \in {"reg", "reg_fb"}
           takeCfg == br \in {"config", "config_fb"}
           src == IF takeReg THEN regSrc ELSE IF takeCfg THEN cfgSrc ELSE <<>>
           \* rng.choice: any position of the list drawn from
           draws == IF br = "break" THEN {0} ELSE 1..Len(src)
       IN  \E i \in draws :
           LET ac == IF takeCfg /\ ~repeat THEN RemoveAt(available_config, i)
                     ELSE available_config
               ar == IF takeReg /\ ~repeat THEN RemoveAt(available_reg, i)
                     ELSE available_reg
               exhausted == ~repeat /\ Len(ac) = 0 /\ Len(ar) = 0
           IN  /\ pick_reg' = pr
               /\ pool' = IF br = "break" THEN pool ELSE Append(pool, src[i])
               /\ available_config' = ac
               /\ available_reg' = ar
               /\ config_selected' = config_selected + (IF takeCfg THEN 1 ELSE 0)
               /\ reg_selected' = reg_selected + (IF takeReg THEN 1 ELSE 0)
               /\ iteration' = iteration + 1
               /\ pc' = IF br = "break" \/ exhausted \/ iteration + 1 >= max_iterations
                        THEN "done" ELSE "loop"
    /\ UNCHANGED <<settingVars, twoLevelVars, poolVars, targetVars, campaignVars, config_targets,
                   reg_targets, config_idx, reg_idx>>

\* ------------------------------------------------ WeightedModuleSelector

RECURSIVE SumSeq(_)
SumSeq(s) == IF s = <<>> THEN 0 ELSE Head(s) + SumSeq(Tail(s))

ModuleIndices == 1..Len(selected_modules)

\* sum(self.selection_counts.values())
TotalSelections(counts) ==
    SumSeq([i \in ModuleIndices |-> counts[selected_modules[i]]])

\* get_next_module_scheduled: every outcome [module, index] the mode allows;
\* index is round_robin_index after the call.  rng.choices never returns a
\* module of weight 0; rng.choice may return any module.
GetNextModuleScheduled(mode, w, rri) ==
    IF mode = "round_robin"
    THEN {[module |-> selected_modules[rri + 1],
           index |-> (rri + 1) % Len(selected_modules)]}
    ELSE IF mode = "weighted"
    THEN {[module |-> selected_modules[i], index |-> rri] :
             i \in {j \in ModuleIndices : w[j] > 0}}
    ELSE {[module |-> selected_modules[i], index |-> rri] : i \in ModuleIndices}

\* deficits[module] of get_most_underselected, times total_weight (> 0).
Deficit(i, w, counts) ==
    LET total_selections == TotalSelections(counts)
        ideal == IF total_selections = 0 THEN 0 ELSE w[i] * total_selections
    IN  ideal - counts[selected_modules[i]] * SumSeq(w)

\* max() over the deficits dict, whose keys are in module_names order: the
\* first key of maximal deficit.
\* Mutant: ties go to the last module of maximal deficit.
GetMostUnderselected_LastOfTies(available, w, counts) ==
    LET cand == {i \in ModuleIndices : selected_modules[i] \in available}
        best == CHOOSE i \in cand :
                    /\ \A j \in cand : Deficit(j, w, counts) <= Deficit(i, w, counts)
                    /\ \A j \in cand : j > i => Deficit(j, w, counts) < Deficit(i, w, counts)
    IN  selected_modules[best]

GetMostUnderselected(available, w, counts) ==
    LET cand == {i \in ModuleIndices : selected_modules[i] \in available}
        best == CHOOSE i \in cand :
                    /\ \A j \in cand : Deficit(j, w, counts) <= Deficit(i, w, counts)
                    /\ \A j \in cand : j < i => Deficit(j, w, counts) < Deficit(i, w, counts)
    IN  selected_modules[best]

\* ------------------------------------------------- two-level pool builder

\* The global ratio rule as written inline in the two-level loop.
NeedReg(r, cc, rc) ==
    IF r[1] = r[2] THEN TRUE
    ELSE IF r[1] = 0 THEN FALSE
    ELSE LET total == cc + rc IN        \* the loop's local total_injections
         IF total = 0 THEN 2 * r[1] > r[2]
         ELSE rc * r[2] < total * r[1]

TotalAvailable(library) ==
    SumSeq([i \in ModuleIndices |->
               Len(library[selected_modules[i]].config)
             + Len(library[selected_modules[i]].reg)])

TwoLevelMaxIterations(bro, rep, tpool_size, cap, total_available) ==
    IF bro
    THEN IF rep /\ Truthy(tpool_size) THEN Min(tpool_size[1], cap)
         ELSE Min(total_available, cap)
    ELSE IF Truthy(tpool_size) THEN Min(tpool_size[1], cap)
         ELSE Min(total_available, cap)

\* _try_pick_from_module: [target |-> <<t>> or <<>> for None, lib |-> the
\* module's library entry afterwards].
TryPickFromModule(lib, need, rep) ==
    LET from_list == IF need THEN lib.reg ELSE lib.config
        idx == IF need THEN lib.reg_idx ELSE lib.config_idx
        SetIdx(v) == IF need THEN [lib EXCEPT !.reg_idx = v]
                     ELSE [lib EXCEPT !.config_idx = v]
    IN  IF idx < Len(from_list)
        THEN [target |-> <<from_list[idx + 1]>>,
              lib |-> SetIdx(IF rep /\ idx + 1 >= Len(from_list) THEN 0 ELSE idx + 1)]
        ELSE IF rep /\ Len(from_list) > 0
        THEN [target |-> <<from_list[1]>>, lib |-> SetIdx(1)]
        ELSE [target |-> <<>>, lib |-> lib]

\* _pick_any_from_module: CONFIG first, then REG, then the repeat cycle.
PickAnyFromModule(lib, rep) ==
    IF lib.config_idx < Len(lib.config)
    THEN [target |-> <<lib.config[lib.config_idx + 1]>>,
          lib |-> [lib EXCEPT !.config_idx =
                      IF rep /\ lib.config_idx + 1 >= Len(lib.config) THEN 0
                      ELSE lib.config_idx + 1]]
    ELSE IF lib.reg_idx < Len(lib.reg)
    THEN [target |-> <<lib.reg[lib.reg_idx + 1]>>,
          lib |-> [lib EXCEPT !.reg_idx =
                      IF rep /\ lib.reg_idx + 1 >= Len(lib.reg) THEN 0
                      ELSE lib.reg_idx + 1]]
    ELSE IF rep /\ Len(lib.config) > 0
    THEN [target |-> <<lib.config[1]>>, lib |-> [lib EXCEPT !.config_idx = 1]]
    ELSE IF rep /\ Len(lib.reg) > 0
    THEN [target |-> <<lib.reg[1]>>, lib |-> [lib EXCEPT !.reg_idx = 1]]
    ELSE [target |-> <<>>, lib |-> lib]

HasAnyTargets(lib, rep) ==
    IF rep THEN Len(lib.config) > 0 \/ Len(lib.reg) > 0
    ELSE lib.config_idx < Len(lib.config) \/ lib.reg_idx < Len(lib.reg)

\* The loop over the other modules: <<m>> for the first module of
\* selected_modules, other than the scheduled one, whose _try_pick_from_module
\* succeeds; <<>> when none does.  (A failed try changes nothing.)
\* Mutant: the other modules are tried in reverse order.
FirstOtherModule_Reversed(sched, library, need, rep) ==
    LET able == {i \in ModuleIndices :
                    /\ selected_modules[i] # sched
                    /\ TryPickFromModule(library[selected_modules[i]], need, rep).target # <<>>}
    IN  IF able = {} THEN <<>>
        ELSE <<selected_modules[CHOOSE i \in able : \A j \in able : i >= j]>>

FirstOtherModule(sched, library, need, rep) ==
    LET able == {i \in ModuleIndices :
                    /\ selected_modules[i] # sched
                    /\ TryPickFromModule(library[selected_modules[i]], need, rep).target # <<>>}
    IN  IF able = {} THEN <<>>
        ELSE <<selected_modules[CHOOSE i \in able : \A j \in able : i <= j]>>

\* Mutant: ratio_strict is not consulted before the fallback.
TwoLevelChoice_IgnoreStrict(sched, library, need, rep, strict, w, counts) ==
    LET first == TryPickFromModule(library[sched], need, rep)
        other == FirstOtherModule(sched, library, need, rep)
        available_modules == {m \in ModuleNames : HasAnyTargets(library[m], rep)}
        none == [module |-> <<>>, pick |-> [target |-> <<>>, lib |-> library[sched]]]
    IN  IF first.target # <<>> THEN [module |-> <<sched>>, pick |-> first]
        ELSE IF other # <<>>
        THEN [module |-> other,
              pick |-> TryPickFromModule(library[other[1]], need, rep)]
        ELSE IF available_modules = {} THEN none
        ELSE LET rebalance_module == GetMostUnderselected(available_modules, w, counts)
                 any == PickAnyFromModule(library[rebalance_module], rep)
             IN  IF any.target # <<>> THEN [module |-> <<rebalance_module>>, pick |-> any]
                 ELSE none

\* One iteration's choice of supplier: [module |-> <<m>> or <<>> for break,
\* pick |-> what the pick from m returns].
TwoLevelChoice(sched, library, need, rep, strict, w, counts) ==
    LET first == TryPickFromModule(library[sched], need, rep)
        other == FirstOtherModule(sched, library, need, rep)
        available_modules == {m \in ModuleNames : HasAnyTargets(library[m], rep)}
        none == [module |-> <<>>, pick |-> [target |-> <<>>, lib |-> library[sched]]]
    IN  IF first.target # <<>> THEN [module |-> <<sched>>, pick |-> first]
        ELSE IF other # <<>>
        THEN [module |-> other,
              pick |-> TryPickFromModule(library[other[1]], need, rep)]
        ELSE IF strict THEN none
        ELSE IF available_modules = {} THEN none
        ELSE LET rebalance_module == GetMostUnderselected(available_modules, w, counts)
                 any == PickAnyFromModule(library[rebalance_module], rep)
             IN  IF any.target # <<>> THEN [module |-> <<rebalance_module>>, pick |-> any]
                 ELSE none

\* Mutant: the selection is not recorded.
record_selection_Forgotten(counts, module_name) == counts

\* WeightedModuleSelector.record_selection on the counts given.
record_selection(counts, module_name) == [counts EXCEPT ![module_name] = @ + 1]

TwoLevelIteration ==
    /\ builder = "two_level"
    /\ pc = "loop"
    /\ \E sch \in GetNextModuleScheduled(module_mode, weights, round_robin_index) :
       LET need == NeedReg(ratio, config_count, reg_count)
           ch == TwoLevelChoice(sch.module, module_library, need, repeat,
                                ratio_strict, weights, selection_counts)
           found == ch.module # <<>>
           isReg == found /\ ch.pick.target[1].kind = "REG"
           isCfg == found /\ ch.pick.target[1].kind = "CONFIG"
       IN  /\ need_reg' = need
           /\ scheduled_module' = sch.module
           /\ round_robin_index' = sch.index
           /\ pool' = IF found THEN Append(pool, ch.pick.target[1]) ELSE pool
           /\ module_library' = IF found
                                THEN [module_library EXCEPT ![ch.module[1]] = ch.pick.lib]
                                ELSE module_library
           /\ selection_counts' = IF found
                                  THEN record_selection(selection_counts, ch.module[1])
                                  ELSE selection_counts
           /\ reg_count' = reg_count + (IF isReg THEN 1 ELSE 0)
           /\ config_count' = config_count + (IF isCfg THEN 1 ELSE 0)
           /\ iteration' = iteration + 1
           /\ pc' = IF ~found \/ iteration + 1 >= max_iterations THEN "done" ELSE "loop"
    /\ UNCHANGED <<settingVars, ratioSelectorVars, poolVars, targetVars, campaignVars, weights, module_mode>>

\* ------------------------------------------------------------ TargetPool

MaxPoolLen == 4     \* longest pool handed to the cursor operations

\* The targets added to a pool: one of each kind.
PoolTargets == {Candidates("CONFIG", "alu", 1)[1], Candidates("REG", "alu", 1)[1]}

\* The batches add_many is called with.
Batches == {<<>>} \cup {<<t>> : t \in PoolTargets}
               \cup {<<t, u>> : t \in PoolTargets, u \in PoolTargets}

add(new_target) ==
    /\ Len(targets) < MaxPoolLen
    /\ targets' = Append(targets, new_target)
    /\ op' = "add"
    /\ UNCHANGED <<position, pop_result, drained, last_drain, buildVars, targetVars, campaignVars>>

\* Mutant: the batch goes in front of the entries already there.
add_many_Prepend(batch) ==
    /\ Len(targets) + Len(batch) <= MaxPoolLen
    /\ targets' = batch \o targets
    /\ op' = "add_many"
    /\ UNCHANGED <<position, pop_result, drained, last_drain, buildVars, targetVars, campaignVars>>

add_many(batch) ==
    /\ Len(targets) + Len(batch) <= MaxPoolLen
    /\ targets' = targets \o batch
    /\ op' = "add_many"
    /\ UNCHANGED <<position, pop_result, drained, last_drain, buildVars, targetVars, campaignVars>>

\* Mutant: the cursor advances without the exhaustion test.
pop_next_Unchecked ==
    /\ pop_result' = IF position < Len(targets) THEN <<targets[position + 1]>> ELSE <<>>
    /\ position' = position + 1
    /\ op' = "pop_next"
    /\ drained' = drained \o pop_result'
    /\ UNCHANGED <<targets, last_drain, buildVars, targetVars, campaignVars>>

\* drained collects what the caller has been handed since the last reset.
pop_next ==
    /\ IF position >= Len(targets)
       THEN /\ pop_result' = <<>>
            /\ position' = position
       ELSE /\ pop_result' = <<targets[position + 1]>>
            /\ position' = position + 1
    /\ op' = "pop_next"
    /\ drained' = drained \o pop_result'
    /\ UNCHANGED <<targets, last_drain, buildVars, targetVars, campaignVars>>

\* Mutant: the cursor moves past the entry behind the one returned.
PopNext_SkipsEntry ==
    /\ IF position >= Len(targets)
       THEN /\ pop_result' = <<>>
            /\ position' = position
       ELSE /\ pop_result' = <<targets[position + 1]>>
            /\ position' = Min(position + 2, Len(targets))
    /\ op' = "pop_next"
    /\ drained' = drained \o pop_result'
    /\ UNCHANGED <<targets, last_drain>>

\* pop_next as the controller calls it during a campaign.
PopNext ==
    /\ IF position >= Len(targets)
       THEN /\ pop_result' = <<>>
            /\ position' = position
       ELSE /\ pop_result' = <<targets[position + 1]>>
            /\ position' = position + 1
    /\ op' = "pop_next"
    /\ drained' = drained \o pop_result'
    /\ UNCHANGED <<targets, last_drain>>

\* Mutant: the cursor goes back by one entry only.
reset_OneBack ==
    /\ position' = IF position > 0 THEN position - 1 ELSE 0
    /\ op' = "reset"
    /\ drained' = <<>>
    /\ last_drain' = IF op = "pop_next" /\ pop_result = <<>> THEN <<drained>> ELSE last_drain
    /\ UNCHANGED <<targets, pop_result, buildVars, targetVars, campaignVars>>

\* last_drain keeps the caller's previous drain when it had run to None.
reset ==
    /\ position' = 0
    /\ op' = "reset"
    /\ drained' = <<>>
    /\ last_drain' = IF op = "pop_next" /\ pop_result = <<>> THEN <<drained>> ELSE last_drain
    /\ UNCHANGED <<targets, pop_result, buildVars, targetVars, campaignVars>>

Add == \E t \in PoolTargets : add(t)

AddMany == \E batch \in Batches : add_many(batch)

\* ------------------------------------------------------------- TargetSpec

MaxRegId == 2       \* largest reg_id handed to the constructor
MaxMade == 2        \* targets a caller constructs in a row

None == <<>>

\* The arguments TargetSpec is constructed with: kind, module_name, and the
\* two Optional fields, None or a value.
ConfigAddresses == {"00001234", "0000ABCD"}

RegIds == 0..MaxRegId

CtorArgs ==
    [kind : {"CONFIG", "REG"},
     module_name : ModuleNames,
     config_address : {None} \cup {<<a>> : a \in ConfigAddresses},
     reg_id : {None} \cup {<<r>> : r \in RegIds}]

\* Mutant: only CONFIG targets are validated.
post_init_ConfigOnly(self) ==
    IF self.kind = "CONFIG" /\ self.config_address = None
    THEN "ValueError"
    ELSE "ok"

\* TargetSpec.__post_init__: "ValueError" when it raises, "ok" when it returns.
post_init(self) ==
    IF self.kind = "CONFIG"
    THEN IF self.config_address = None THEN "ValueError" ELSE "ok"
    ELSE IF self.kind = "REG"
         THEN IF self.reg_id = None THEN "ValueError" ELSE "ok"
         ELSE "ok"

\* A caller constructs a target from args and keeps it when the constructor
\* returns.
TargetSpec(args) ==
    /\ Len(made) < MaxMade
    /\ ctor_args' = args
    /\ ctor_outcome' = post_init(args)
    /\ made' = IF ctor_outcome' = "ok" THEN Append(made, args) ELSE made
    /\ UNCHANGED <<buildVars, poolVars, factoryVars, semVars, mainVars, transportVars,
                   campaignVars>>

Construct == \E args \in CtorArgs : TargetSpec(args)

\* No target has been constructed.
InitTargetIdle ==
    /\ ctor_args = [kind |-> "CONFIG", module_name |-> "alu",
                    config_address |-> None, reg_id |-> None]
    /\ ctor_outcome = "none"
    /\ made = <<>>
    /\ factory_args = [factory |-> "none"]
    /\ factory_outcome = "none"
    /\ constructed = <<>>
    /\ first_pick = None
    /\ sem_pc = "idle"
    /\ sem_clock = 0
    /\ uart_tx = <<>>
    /\ rx_lines = <<>>
    /\ sem_emitted = 0
    /\ sem_deadline = 0
    /\ collected = <<>>
    /\ read_calls = 0
    /\ sem_log = <<>>
    /\ lfa_result = FALSE
    /\ exit_code = None
    /\ campaign_end_log = None
    /\ cv_owner = "free"
    /\ rl_pc = [c \in Callers |-> "idle"]
    /\ rl_out = [c \in Callers |-> <<>>]
    /\ rl_deadline = [c \in Callers |-> 0]
    /\ framed = <<>>
    /\ returned = <<>>

\* ---------------------------------------- InjectionController and router

MaxTime == 4            \* the clock ticks on its own up to here
MaxOvershoot == 1       \* how much longer than asked a sleep may last
MaxDelta == 2           \* largest sampled inter-arrival time
MaxDuration == 3        \* largest duration_s
MaxBursts == 2          \* largest bursts, and the cycles run without one
MaxCampaignLen == 2     \* longest pool handed to a campaign
PDen == 4               \* probabilities and uniform draws are k/PDen

\* InjectionController.request_stop; stop_at remembers how many backend
\* calls had been made when the flag was first set.
request_stop ==
    /\ stop_flag' = TRUE
    /\ stop_at' = IF stop_flag THEN stop_at ELSE <<Len(dispatched)>>

\* Mutant: the count-based test is off by one.
should_check_OffByOne ==
    /\ sync_enabled
    /\ \/ clock - last_check_time >= check_interval_s
       \/ sync_count > check_every_n

\* BenchmarkSync.should_check (file_appeared holds once the campaign runs).
should_check ==
    /\ sync_enabled
    /\ \/ clock - last_check_time >= check_interval_s
       \/ sync_count >= check_every_n

\* What the backend called for t can do: return (True), return False
\* (board interface only), or raise.
BackendOutcomes(t) ==
    IF t.kind = "CONFIG" THEN {"ok", "raises"} ELSE {"ok", "false", "raises"}

\* router.inject_target: the backend method called for t and its argument.
BackendCall(t) ==
    IF t.kind = "CONFIG"
    THEN [method |-> "sem_proto.inject_lfa", address |-> t.config_address, reg_id |-> None]
    ELSE [method |-> "board_if.inject_register", address |-> None, reg_id |-> t.reg_id]

\* Mutant: a backend exception counts as a success.
router_inject_target_RaiseIsSuccess(t, outcome) ==
    outcome # "false"

\* router.inject_target: its return value, given what the backend did.
router_inject_target(t, outcome) ==
    outcome = "ok"

\* The seeds a generator is built from.  A seeded random.Random is a fixed
\* stream of draws; the stream of a seed is the seed read cyclically, each
\* draw u standing for the float u/PDen of [0, 1).
RngSeeds ==
    {<<1, 2, 3>>, <<3, 0, 1>>, <<0, 1, 3>>, <<0, 0, 2>>,
     <<2, 3, 0>>, <<1, 1, 1>>, <<3, 3, 3>>, <<2, 0, 0>>}

\* rng.random(): the next draw of the stream, and the generator after it.
rng_random(g) ==
    [u |-> g.seed[(g.pos % Len(g.seed)) + 1],
     rng |-> [g EXCEPT !.pos = @ + 1]]

\* -ln(u/PDen) / rate_hz in clock ticks, with _current_rate() = low_hz = 0.7
\* in state "low" and high_hz = 1.4 in state "high", rounded.
InterArrival(u, state) ==
    IF state = "low"
    THEN (IF u = 1 THEN 2 ELSE IF u = 2 THEN 1 ELSE 0)
    ELSE (IF u = 1 THEN 1 ELSE 0)

\* Mutant: the draw is used as it comes, a 0.0 included.
sample_exponential_OneDraw(g, state) ==
    [delta_t |-> InterArrival(rng_random(g).u, state), rng |-> rng_random(g).rng]

\* base.sample_exponential at the rate of the state: draws until the draw
\* is not 0.0.
RECURSIVE sample_exponential(_, _)
sample_exponential(g, state) ==
    LET draw == rng_random(g)
    IN  IF draw.u <= 0
        THEN sample_exponential(draw.rng, state)
        ELSE [delta_t |-> InterArrival(draw.u, state), rng |-> draw.rng]

\* Mutant: each state tests the draw against the other state's probability.
MaybeTransition_Swapped(state, u) ==
    IF state = "low"
    THEN IF u < p_high_to_low THEN "high" ELSE "low"
    ELSE IF u < p_low_to_high THEN "low" ELSE "high"

\* MMPP2TimeProfile._maybe_transition with the draw u/PDen.
MaybeTransition(state, u) ==
    IF state = "low"
    THEN IF u < p_low_to_high THEN "high" ELSE "low"
    ELSE IF u < p_high_to_low THEN "low" ELSE "high"

\* Whether the injection just made was the last entry of the last cycle.
TraceCompleted ==
    /\ law = "trace"
    /\ entry + 1 = Len(schedule)
    /\ cycle + 1 = trace_repeat

\* What run() does between inject_target returning and the next iteration.
AfterInject ==
    /\ tpc' = IF law = "ramp" THEN "raised"
              ELSE IF law = "microburst" THEN "mb_interval"
              ELSE IF TraceCompleted THEN "break"
              ELSE "top"
    /\ exception' = IF law = "ramp" THEN "NameError" ELSE exception
    /\ injection_count' = IF law = "uniform" THEN injection_count + 1 ELSE injection_count
    /\ IF law = "mmpp2"
       THEN /\ mm_state' = MaybeTransition(mm_state, rng_random(rng).u)
            /\ rng' = rng_random(rng).rng
       ELSE UNCHANGED <<mm_state, rng>>
    /\ IF law = "trace"
       THEN IF entry + 1 < Len(schedule)
            THEN /\ entry' = entry + 1
                 /\ UNCHANGED <<cycle, cycle_start, termination_reason>>
            ELSE IF cycle + 1 < trace_repeat
                 THEN /\ entry' = 0
                      /\ cycle' = cycle + 1
                      /\ cycle_start' = clock
                      /\ UNCHANGED termination_reason
                 ELSE /\ termination_reason' =
                           IF trace_repeat > 1 THEN "Schedule completed (N cycles)"
                                               ELSE "Schedule completed"
                      /\ UNCHANGED <<entry, cycle, cycle_start>>
       ELSE UNCHANGED <<entry, cycle, cycle_start, termination_reason>>

\* Mutant: the attempt is counted before the benchmark check.
GateStatistics_CountsAttempt ==
    /\ total_injections' = total_injections + 1
    /\ UNCHANGED <<successes, failures>>

\* The statistics when inject_target returns early, the benchmark having
\* stopped: the return comes before any counter is touched.
GateStatistics == UNCHANGED <<total_injections, successes, failures>>

\* InjectionController.inject_target, called by run() with the target it
\* took, and run()'s statements up to the next loop iteration.
inject_target ==
    /\ tpc = "inject"
    /\ LET t == target[1]
       IN  IF should_check /\ ~signal_file
           THEN /\ request_stop
                /\ inject_result' = FALSE
                /\ backend_outcome' = "none"
                /\ gated' = Append(gated, t)
                /\ last_check_time' = clock
                /\ sync_count' = 0
                /\ GateStatistics
                /\ UNCHANGED dispatched
                /\ AfterInject
           ELSE /\ \E outcome \in BackendOutcomes(t) :
                      LET success == router_inject_target(t, outcome)
                      IN  /\ inject_result' = IF log_sink = "failing"
                                              THEN inject_result ELSE success
                          /\ backend_outcome' = outcome
                          /\ successes' = IF success THEN successes + 1 ELSE successes
                          /\ failures' = IF success THEN failures ELSE failures + 1
                /\ dispatched' = Append(dispatched, BackendCall(t))
                /\ total_injections' = total_injections + 1
                /\ last_check_time' = IF should_check THEN clock ELSE last_check_time
                /\ UNCHANGED <<stop_flag, stop_at, gated>>
                /\ IF log_sink = "failing"
                   THEN \* log_injection raises out of inject_target and run()
                        /\ sync_count' = IF should_check THEN 0 ELSE sync_count
                        /\ tpc' = "raised"
                        /\ exception' = "OSError"
                        /\ UNCHANGED <<injection_count, mm_state, rng, entry, cycle,
                                       cycle_start, termination_reason>>
                   ELSE /\ sync_count' = IF sync_enabled
                                         THEN (IF should_check THEN 0 ELSE sync_count) + 1
                                         ELSE sync_count
                        /\ AfterInject
    /\ slept' = FALSE
    /\ UNCHANGED <<buildVars, targetVars, sync_enabled, signal_file,
                 check_interval_s, check_every_n, lawParams, start_t, now,
                 deadline, current_t, burst_count, phase, interval_start, interval_k,
                 poolVars, target, clock>>

\* ------------------------------------------------------------ time profiles

Laws == {"uniform", "poisson", "mmpp2", "microburst", "ramp", "trace"}

Ended == {"returned", "raised"}

\* run() sets the termination reason and leaves its loop.
EndRun(reason) ==
    /\ termination_reason' = reason
    /\ tpc' = "break"
    /\ UNCHANGED <<poolVars, target, deadline>>

\* target = controller.next_target(), the test for None, and the deadline
\* of the target taken.
Take(dl, exhausted_pc) ==
    /\ PopNext
    /\ target' = pop_result'
    /\ IF pop_result' = None
       THEN /\ tpc' = exhausted_pc
            /\ termination_reason' = IF exhausted_pc = "break"
                                     THEN "Target pool exhausted"
                                     ELSE termination_reason
            /\ UNCHANGED deadline
       ELSE /\ deadline' = dl
            /\ tpc' = "sleep"
            /\ UNCHANGED termination_reason

DurationReached(t0) ==
    duration_s # None /\ clock - t0 >= duration_s[1]

\* The statements of run() before its loop.
Run ==
    /\ tpc = "start"
    /\ start_t' = clock
    /\ deadline' = IF law = "ramp" THEN clock ELSE deadline
    /\ current_t' = IF law = "mmpp2" THEN clock ELSE current_t
    /\ cycle_start' = IF law = "trace" THEN clock ELSE cycle_start
    /\ IF law = "trace" /\ schedule = <<>>
       THEN /\ termination_reason' = "Empty schedule"
            /\ tpc' = "break"
       ELSE /\ tpc' = IF law = "microburst" THEN "mb_run" ELSE "top"
            /\ UNCHANGED termination_reason
    /\ UNCHANGED <<buildVars, targetVars, stop_flag, total_injections,
                 successes, failures, inject_result, backend_outcome, dispatched, gated,
                 stop_at, syncVars, lawParams, now, injection_count,
                 mm_state, rng, burst_count, phase, interval_start, interval_k, cycle, entry,
                 poolVars, exception, target, clock, slept>>

\* Mutant: the deadline is counted from the moment the target is taken.
UniformDeadline_FromNow(start, n, period) ==
    clock + period

\* UniformTimeProfile.run: target_time.
UniformDeadline(start, n, period) ==
    start + n * period

\* UniformTimeProfile.run, from the top of the loop to the target taken.
UniformTop ==
    /\ law = "uniform"
    /\ tpc = "top"
    /\ IF stop_flag
       THEN EndRun("Stop requested")
       ELSE IF DurationReached(start_t)
            THEN EndRun("Duration limit reached")
            ELSE Take(UniformDeadline(start_t, injection_count, period_s), "break")
    /\ UNCHANGED <<buildVars, targetVars, stop_flag, total_injections,
                 successes, failures, inject_result, backend_outcome, dispatched, gated,
                 stop_at, syncVars, lawParams, start_t, now, injection_count,
                 current_t, mm_state, rng, burst_count, phase, interval_start, interval_k,
                 cycle, entry, cycle_start, exception, clock, slept>>

\* Mutant: the sampled deadline is never compared with duration_s.
BeyondDuration_Unchecked(dl, t0) ==
    FALSE

\* PoissonTimeProfile.run: the test of the sampled deadline against
\* duration_s, made before next_target().
BeyondDuration(dl, t0) ==
    duration_s # None /\ dl - t0 >= duration_s[1]

\* PoissonTimeProfile.run, from the top of the loop to the target taken.
PoissonTop ==
    /\ law = "poisson"
    /\ tpc = "top"
    /\ IF stop_flag
       THEN EndRun("Stop requested") /\ UNCHANGED now
       ELSE /\ now' = clock
            /\ IF DurationReached(start_t)
               THEN EndRun("Duration limit reached")
               ELSE \E delta_t \in 0..MaxDelta :
                      IF BeyondDuration(clock + delta_t, start_t)
                      THEN EndRun("Duration limit reached")
                      ELSE Take(clock + delta_t, "break")
    /\ UNCHANGED <<buildVars, targetVars, stop_flag, total_injections,
                 successes, failures, inject_result, backend_outcome, dispatched, gated,
                 stop_at, syncVars, lawParams, start_t, injection_count,
                 current_t, mm_state, rng, burst_count, phase, interval_start, interval_k,
                 cycle, entry, cycle_start, exception, clock, slept>>

\* MMPP2TimeProfile.run, from the top of the loop to the target taken.
Mmpp2Top ==
    /\ law = "mmpp2"
    /\ tpc = "top"
    /\ IF stop_flag
       THEN EndRun("Stop requested") /\ UNCHANGED <<current_t, rng>>
       ELSE IF duration_s # None /\ current_t - start_t >= duration_s[1]
            THEN EndRun("Duration limit reached") /\ UNCHANGED <<current_t, rng>>
            ELSE LET sample == sample_exponential(rng, mm_state)
                 IN  /\ rng' = sample.rng
                     /\ current_t' = current_t + sample.delta_t
                     /\ Take(current_t', "break")
    /\ UNCHANGED <<buildVars, targetVars, stop_flag, total_injections,
                 successes, failures, inject_result, backend_outcome, dispatched, gated,
                 stop_at, syncVars, lawParams, start_t, now, injection_count,
                 mm_state, burst_count, phase, interval_start, interval_k, cycle, entry,
                 cycle_start, exception, clock, slept>>

\* RampTimeProfile._current_rate, as the fraction <<numerator, denominator>>.
current_rate(elapsed, start_rate_hz, end_rate_hz, dur) ==
    IF elapsed <= 0
    THEN <<start_rate_hz, 1>>
    ELSE IF elapsed >= dur
         THEN <<end_rate_hz, 1>>
         ELSE <<start_rate_hz * dur + elapsed * (end_rate_hz - start_rate_hz), dur>>

\* RampTimeProfile.run, from the top of the loop to the target taken.
RampTop ==
    /\ law = "ramp"
    /\ tpc = "top"
    /\ IF stop_flag
       THEN EndRun("Stop requested") /\ UNCHANGED now
       ELSE /\ now' = clock
            /\ IF DurationReached(start_t)
               THEN EndRun("Duration limit reached")
               ELSE Take(deadline, "break")
    /\ UNCHANGED <<buildVars, targetVars, stop_flag, total_injections,
                 successes, failures, inject_result, backend_outcome, dispatched, gated,
                 stop_at, syncVars, lawParams, start_t, injection_count,
                 current_t, mm_state, rng, burst_count, phase, interval_start, interval_k,
                 cycle, entry, cycle_start, exception, clock, slept>>

\* Mutant: every cycle is anchored to the start of the campaign.
TraceDeadline_FromCampaignStart(anchor, t_offset) ==
    start_t + t_offset

\* TraceTimeProfile.run: the absolute deadline of a schedule entry.
TraceDeadline(anchor, t_offset) ==
    anchor + t_offset

\* TraceTimeProfile.run, from the top of the inner loop to the target taken.
TraceTop ==
    /\ law = "trace"
    /\ tpc = "top"
    /\ IF stop_flag
       THEN EndRun("Stop requested")
       ELSE IF DurationReached(start_t)
            THEN EndRun("Duration limit reached")
            ELSE Take(TraceDeadline(cycle_start, schedule[entry + 1]), "break")
    /\ UNCHANGED <<buildVars, targetVars, stop_flag, total_injections,
                 successes, failures, inject_result, backend_outcome, dispatched, gated,
                 stop_at, syncVars, lawParams, start_t, now, injection_count,
                 current_t, mm_state, rng, burst_count, phase, interval_start, interval_k,
                 cycle, entry, cycle_start, exception, clock, slept>>

CoarseStep == 1     \* the idle loop sleeps in steps of at most 1.0 s

\* MicroburstTimeProfile.run: the checks before the idle interval, and the
\* first statements of _run_interval.
MicroburstRun ==
    /\ law = "microburst"
    /\ tpc = "mb_run"
    /\ IF bursts # None /\ burst_count >= bursts[1]
       THEN EndRun("Requested number of bursts completed") /\ UNCHANGED <<phase, interval_start, interval_k>>
       ELSE IF DurationReached(start_t)
            THEN EndRun("Duration limit reached") /\ UNCHANGED <<phase, interval_start, interval_k>>
            ELSE IF stop_flag
                 THEN EndRun("Stop requested") /\ UNCHANGED <<phase, interval_start, interval_k>>
                 ELSE /\ burst_count < MaxBursts
                      /\ phase' = "idle"
                      /\ interval_start' = clock
                      /\ interval_k' = 0
                      /\ tpc' = "mb_interval"
                      /\ UNCHANGED <<termination_reason, poolVars, target, deadline>>
    /\ UNCHANGED <<buildVars, targetVars, stop_flag, total_injections,
                 successes, failures, inject_result, backend_outcome, dispatched, gated,
                 stop_at, syncVars, lawParams, start_t, now, injection_count,
                 current_t, mm_state, rng, burst_count, cycle, entry, cycle_start,
                 exception, clock, slept>>

\* MicroburstTimeProfile.run: the checks between the idle and the burst
\* interval, and the first statements of _run_interval.
MicroburstMid ==
    /\ law = "microburst"
    /\ tpc = "mb_mid"
    /\ IF DurationReached(start_t)
       THEN EndRun("Duration limit reached") /\ UNCHANGED <<phase, interval_start, interval_k>>
       ELSE IF stop_flag
            THEN EndRun("Stop requested") /\ UNCHANGED <<phase, interval_start, interval_k>>
            ELSE /\ phase' = "burst"
                 /\ interval_start' = clock
                 /\ interval_k' = 0
                 /\ tpc' = "mb_interval"
                 /\ UNCHANGED <<termination_reason, poolVars, target, deadline>>
    /\ UNCHANGED <<buildVars, targetVars, stop_flag, total_injections,
                 successes, failures, inject_result, backend_outcome, dispatched, gated,
                 stop_at, syncVars, lawParams, start_t, now, injection_count,
                 current_t, mm_state, rng, burst_count, cycle, entry, cycle_start,
                 exception, clock, slept>>

\* Mutant: every interval that ends counts as a burst.
IntervalDone_CountsIdle ==
    /\ tpc' = IF phase = "idle" THEN "mb_mid" ELSE "mb_run"
    /\ burst_count' = burst_count + 1
    /\ UNCHANGED <<poolVars, target, deadline, termination_reason, clock, slept>>

\* _run_interval returns True: run() goes on with the next interval.
IntervalDone ==
    /\ tpc' = IF phase = "idle" THEN "mb_mid" ELSE "mb_run"
    /\ burst_count' = IF phase = "idle" THEN burst_count ELSE burst_count + 1
    /\ UNCHANGED <<poolVars, target, deadline, termination_reason, clock, slept>>

\* Mutant: the arrival is laid out from the start of the interval.
NextArrival_FromIntervalStart(now_t, delta_t) == interval_start + delta_t

\* current_t = now + delta_t of the active interval.
NextArrival(now_t, delta_t) == now_t + delta_t

\* MicroburstTimeProfile._run_interval: one iteration of its loop, up to
\* the target taken (or, at rate 0, the coarse sleep).
MicroburstInterval ==
    /\ law = "microburst"
    /\ tpc = "mb_interval"
    /\ LET rate_is_zero == phase = "idle" /\ idle_rate_hz <= 0   \* burst_rate_hz > 0
           interval_duration == IF phase = "idle" THEN idle_duration_s ELSE burst_duration_s
           elapsed == clock - interval_start
       IN  IF stop_flag
           THEN /\ tpc' = "mb_false"
                /\ UNCHANGED <<poolVars, target, deadline, termination_reason, clock,
                               slept, burst_count>>
           ELSE IF elapsed >= interval_duration
                THEN IntervalDone
                ELSE IF rate_is_zero
                     THEN /\ \E o \in 0..MaxOvershoot :
                               clock' = clock + Min(CoarseStep, interval_duration - elapsed) + o
                          /\ slept' = TRUE
                          /\ UNCHANGED <<tpc, poolVars, target, deadline,
                                         termination_reason, burst_count>>
                     ELSE \E delta_t \in 0..MaxDelta :
                            LET next_t == NextArrival(clock, delta_t)  \* the local current_t
                            IN  IF next_t - interval_start > interval_duration
                                THEN IntervalDone
                                ELSE /\ Take(next_t, "mb_false")
                                     /\ UNCHANGED <<clock, slept, burst_count>>
    /\ interval_k' = IF tpc' = "sleep" THEN interval_k + 1 ELSE interval_k
    /\ UNCHANGED <<buildVars, targetVars, stop_flag, total_injections,
                 successes, failures, inject_result, backend_outcome, dispatched, gated,
                 stop_at, syncVars, lawParams, start_t, now, injection_count, current_t,
                 mm_state, rng, phase, interval_start, cycle, entry, cycle_start,
                 exception>>

\* MicroburstTimeProfile.run after _run_interval returned False.
MicroburstStopped ==
    /\ law = "microburst"
    /\ tpc = "mb_false"
    /\ IF stop_flag
       THEN EndRun("Stop requested")
       ELSE EndRun("Target pool exhausted")
    /\ UNCHANGED <<buildVars, targetVars, stop_flag, total_injections,
                 successes, failures, inject_result, backend_outcome, dispatched, gated,
                 stop_at, syncVars, lawParams, start_t, now, injection_count,
                 current_t, mm_state, rng, burst_count, phase, interval_start, interval_k,
                 cycle, entry, cycle_start, exception, clock, slept>>

\* The wait before the injection: controller.sleep is called, and sleeps,
\* only for a positive delay.  ramp computes the delay from the time it read
\* at the top of the loop, the other laws read the clock again.
Sleep ==
    /\ tpc = "sleep"
    /\ LET delay == deadline - (IF law = "ramp" THEN now ELSE clock)
       IN  IF delay > 0
           THEN /\ slept' = TRUE
                /\ \E o \in 0..MaxOvershoot : clock' = clock + delay + o
           ELSE /\ slept' = FALSE
                /\ clock' = clock
    /\ tpc' = "inject"
    /\ UNCHANGED <<buildVars, targetVars, controllerVars, syncVars,
                 lawParams, lawLocals, poolVars, exception, target>>

\* run() returns to main.
Return ==
    /\ tpc = "break"
    /\ tpc' = "returned"
    /\ UNCHANGED <<buildVars, targetVars, controllerVars, syncVars,
                 lawParams, lawLocals, poolVars, exception, target, clock,
                 slept>>

\* ------------------------------------------------------------- environment

\* The pcs at which run() reads the clock next.
ClockReaders == {"top", "sleep", "mb_run", "mb_mid", "mb_interval"}

\* Time passes while run() executes (what passes during inject_target is
\* seen at the next reading).
Tick ==
    /\ tpc \in ClockReaders
    /\ clock < MaxTime
    /\ clock' = clock + 1
    /\ UNCHANGED <<buildVars, targetVars, controllerVars, syncVars,
                 lawParams, lawLocals, poolVars, tpc, exception, target,
                 slept>>

\* signal_handler: SIGINT or SIGTERM while the controller is registered.
signal_handler ==
    /\ tpc \notin (Ended \cup {"idle"})
    /\ request_stop
    /\ termination_reason' = "User interrupt"
    /\ UNCHANGED <<buildVars, targetVars, total_injections, successes,
                 failures, inject_result, backend_outcome, dispatched, gated, syncVars,
                 lawParams, lawLocals, poolVars, tpc, exception, target,
                 clock, slept>>

\* The benchmark removes its signal file.
BenchmarkStops ==
    /\ tpc \notin (Ended \cup {"idle", "break"})
    /\ sync_enabled
    /\ signal_file
    /\ signal_file' = FALSE
    /\ UNCHANGED <<buildVars, targetVars, controllerVars, sync_enabled,
                 last_check_time, sync_count, check_interval_s,
                 check_every_n, lawParams, lawLocals, poolVars, tpc,
                 exception, target, clock, slept>>

\* The log file stops accepting writes (the disk fills up, the file goes
\* away).  Only log_injection, inside inject_target, writes during run().
SinkBreaks ==
    /\ tpc = "inject"
    /\ log_sink = "ok"
    /\ log_sink' = "failing"
    /\ UNCHANGED <<buildVars, targetVars, controllerVars, syncVars, law, duration_s,
                   period_s, p_low_to_high, p_high_to_low, start_state, bursts,
                   idle_rate_hz, idle_duration_s, burst_duration_s, schedule,
                   trace_repeat, lawLocals, poolVars, tpc, exception, target,
                   clock, slept>>

\* ---------------------------------------------------------- campaign Init

\* No campaign is running.
InitCampaignIdle ==
    /\ law = "uniform"
    /\ tpc = "idle"
    /\ exception = "none"
    /\ target = None
    /\ stop_flag = FALSE
    /\ termination_reason = "unknown"
    /\ total_injections = 0
    /\ successes = 0
    /\ failures = 0
    /\ inject_result = FALSE
    /\ backend_outcome = "none"
    /\ sync_enabled = FALSE
    /\ signal_file = FALSE
    /\ last_check_time = 0
    /\ sync_count = 0
    /\ check_interval_s = 1
    /\ check_every_n = 1
    /\ clock = 0
    /\ start_t = 0
    /\ duration_s = None
    /\ now = 0
    /\ deadline = 0
    /\ period_s = 1
    /\ injection_count = 0
    /\ current_t = 0
    /\ mm_state = "low"
    /\ start_state = "low"
    /\ rng = [seed |-> <<1>>, pos |-> 0]
    /\ log_sink = "ok"
    /\ p_low_to_high = 0
    /\ p_high_to_low = 0
    /\ bursts = None
    /\ burst_count = 0
    /\ phase = "idle"
    /\ interval_start = 0
    /\ interval_k = 0
    /\ idle_rate_hz = 0
    /\ idle_duration_s = 1
    /\ burst_duration_s \in (IF law = "microburst" /\ ~sync_enabled THEN 1..2 ELSE {1})
    /\ schedule = <<0>>
    /\ trace_repeat = 1
    /\ cycle = 0
    /\ entry = 0
    /\ cycle_start = 0
    /\ slept = FALSE
    /\ dispatched = <<>>
    /\ gated = <<>>
    /\ stop_at = None

\* The targets of a campaign's pool: a ConfigBit and a Register target.
CampaignTargets ==
    {[kind |-> "CONFIG", module_name |-> "alu",
      config_address |-> <<"00001234">>, reg_id |-> None],
     [kind |-> "REG", module_name |-> "lsu",
      config_address |-> None, reg_id |-> <<1>>]}

\* The pre-built pools: every sequence of up to MaxCampaignLen targets.
CampaignPools ==
    UNION {[1..n -> CampaignTargets] : n \in 0..MaxCampaignLen}

DurationValues == {None, <<1>>, <<MaxDuration>>}

Probabilities == {0, PDen \div 2, PDen}

\* A controller over a pre-built pool and a time profile as its factory
\* returns it, just before main calls run(controller).
InitController ==
    /\ law \in Laws
    /\ tpc = "start"
    /\ exception = "none"
    /\ target = None
    /\ stop_flag = FALSE
    /\ termination_reason = "unknown"
    /\ total_injections = 0
    /\ successes = 0
    /\ failures = 0
    /\ inject_result = FALSE
    /\ backend_outcome = "none"
    /\ sync_enabled \in BOOLEAN
    /\ signal_file = sync_enabled
    /\ clock = 1
    /\ last_check_time = clock
    /\ sync_count = 0
    /\ check_interval_s = MaxTime
    /\ check_every_n \in (IF sync_enabled THEN 0..2 ELSE {1})
    /\ start_t = 0
    /\ duration_s \in (IF law = "ramp" THEN DurationValues \ {None}
                       ELSE IF sync_enabled THEN {None, <<MaxDuration>>}
                       ELSE DurationValues)
    /\ now = 0
    /\ deadline = 0
    /\ period_s \in (IF law = "uniform" /\ ~sync_enabled THEN 1..2 ELSE {1})
    /\ injection_count = 0
    /\ current_t = 0
    /\ start_state \in (IF law = "mmpp2" /\ ~sync_enabled THEN {"low", "high"} ELSE {"low"})
    /\ mm_state = start_state
    /\ log_sink = "ok"
    /\ rng \in (IF law = "mmpp2"
                THEN [seed : RngSeeds, pos : {0}]
                ELSE {[seed |-> <<1>>, pos |-> 0]})
    /\ p_low_to_high \in (IF law = "mmpp2" /\ ~sync_enabled THEN Probabilities ELSE {PDen \div 2})
    /\ p_high_to_low = PDen \div 2
    /\ bursts \in (IF law = "microburst" /\ ~sync_enabled
                   THEN {None, <<1>>, <<MaxBursts>>} ELSE {<<1>>})
    /\ burst_count = 0
    /\ phase = "idle"
    /\ interval_start = 0
    /\ interval_k = 0
    /\ idle_rate_hz \in (IF law = "microburst" /\ ~sync_enabled THEN 0..1 ELSE {0})
    /\ idle_duration_s = 1
    /\ burst_duration_s \in (IF law = "microburst" /\ ~sync_enabled THEN 1..2 ELSE {1})
    /\ schedule \in (IF law = "trace" /\ ~sync_enabled THEN {<<0>>, <<0, 2>>} ELSE {<<0, 2>>})
    /\ trace_repeat \in (IF law = "trace" /\ ~sync_enabled THEN 1..2 ELSE {1})
    /\ cycle = 0
    /\ entry = 0
    /\ cycle_start = 0
    /\ slept = FALSE
    /\ dispatched = <<>>
    /\ gated = <<>>
    /\ stop_at = None

\* The pool the controller consumes.
InitCampaignPool ==
    /\ targets \in CampaignPools
    /\ position = 0
    /\ pop_result = None
    /\ op = "init"
    /\ drained = <<>>
    /\ last_drain = <<>>


\* ------------------------------------------ profile and selector factories

MaxConstructed == 2     \* objects a caller constructs in a row

\* A numeric argument as parsed by base.parse_float: None when the key is
\* missing, else its value.
ArgValues == {None, <<-1>>, <<0>>, <<1>>}

\* The ratio argument of an area profile, as a fraction.
RatioArgs == {<<-1, 2>>, <<0, 1>>, <<1, 2>>, <<1, 1>>, <<3, 2>>}

FactoryArgs ==
    [factory : {"uniform"}, rate_hz : ArgValues, period_s : ArgValues]
      \cup [factory : {"poisson"}, rate_hz : ArgValues]
      \cup [factory : {"mmpp2"}, low_hz : ArgValues, high_hz : ArgValues]
      \cup [factory : {"microburst"}, burst_rate_hz : ArgValues,
             burst_duration_s : {None, <<1>>}, idle_duration_s : {None, <<1>>}]
      \cup [factory : {"ramp"}, start_rate_hz : ArgValues, end_rate_hz : ArgValues]
      \cup [factory : {"ratio_selector"}, ratio : RatioArgs]

\* parse_float(args, key, default).
parse_float(value, default) == IF value = None THEN default ELSE value

Positive(value) == value # None /\ value[1] > 0

\* uniform.make_profile and UniformTimeProfile.__init__.
UniformTimeProfile(a) ==
    IF Positive(a.period_s) THEN "ok"
    ELSE IF Positive(a.rate_hz) THEN "ok"
    ELSE "ValueError"

\* poisson.make_profile and PoissonTimeProfile.__init__.
PoissonTimeProfile(a) ==
    IF a.rate_hz = None THEN "ValueError"
    ELSE IF a.rate_hz[1] <= 0 THEN "ValueError"
    ELSE "ok"

\* mmpp2.make_profile and MMPP2TimeProfile.__init__, the probabilities and
\* start_state given and valid.
MMPP2TimeProfile(a) ==
    IF a.low_hz = None \/ a.high_hz = None THEN "ValueError"
    ELSE IF a.low_hz[1] <= 0 \/ a.high_hz[1] <= 0 THEN "ValueError"
    ELSE "ok"

\* microburst.make_profile and MicroburstTimeProfile.__init__, bursts and
\* duration_s not given.
MicroburstTimeProfile(a) ==
    IF a.burst_rate_hz = None \/ a.burst_duration_s = None \/ a.idle_duration_s = None
    THEN "ValueError"
    ELSE IF a.idle_duration_s[1] <= 0 \/ a.burst_duration_s[1] <= 0 THEN "ValueError"
    ELSE IF a.burst_rate_hz[1] <= 0 THEN "ValueError"
    ELSE "ok"

\* ramp.make_profile and RampTimeProfile.__init__: the rates default to
\* positive values, duration_s to 60.0.
RampTimeProfile(a) ==
    LET start_rate_hz == parse_float(a.start_rate_hz, <<1>>)
        end_rate_hz == parse_float(a.end_rate_hz, <<1>>)
    IN  IF start_rate_hz[1] <= 0 \/ end_rate_hz[1] <= 0 THEN "ValueError" ELSE "ok"

\* RatioSelector.__init__: stores its arguments.
RatioSelector(a) == "ok"

\* The factory called with args a: "ok" when it returns the object,
\* "ValueError" when it raises.
make_profile(a) ==
    CASE a.factory = "uniform" -> UniformTimeProfile(a)
      [] a.factory = "poisson" -> PoissonTimeProfile(a)
      [] a.factory = "mmpp2" -> MMPP2TimeProfile(a)
      [] a.factory = "microburst" -> MicroburstTimeProfile(a)
      [] a.factory = "ramp" -> RampTimeProfile(a)
      [] a.factory = "ratio_selector" -> RatioSelector(a)

\* A caller builds a profile or a selector and keeps it when the factory
\* returns.
MakeProfile ==
    /\ Len(constructed) < MaxConstructed
    /\ \E a \in FactoryArgs :
          /\ factory_args' = a
          /\ factory_outcome' = make_profile(a)
          /\ constructed' = IF factory_outcome' = "ok"
                            THEN Append(constructed, a) ELSE constructed
    /\ first_pick' = None
    /\ UNCHANGED <<buildVars, poolVars, ctor_args, ctor_outcome, made, semVars,
                   mainVars, transportVars, campaignVars>>

\* The first should_pick_reg() of the selector just constructed: the kind
\* of the first target a pool builder selects with it.
FirstPick ==
    /\ constructed # <<>>
    /\ first_pick = None
    /\ LET selector == constructed[Len(constructed)]
       IN  /\ selector.factory = "ratio_selector"
           /\ first_pick' = <<IF ShouldPickReg(selector.ratio, 0, 0)
                               THEN "REG" ELSE "CONFIG">>
    /\ UNCHANGED <<buildVars, poolVars, ctor_args, ctor_outcome, made,
                   factory_args, factory_outcome, constructed, semVars,
                   mainVars, transportVars, campaignVars>>

\* ------------------------------------------- SEM backend (CONFIG targets)

MaxCommands == 2        \* injection commands sent in one run

ReadTimeout == 1        \* read_lines(timeout_s=0.05): the unit of sem_clock

ShortWindow == 6        \* _collect_short_window(window_s=0.3), in read timeouts

\* The LFA addresses of the CONFIG targets injected.
LfaAddresses == {"C000A098000", "C000A098001"}

\* What the SEM answers to an injection command, line by line.
SemResponse == <<"SC 10", "SC 00", "O> ">>

\* _inject_config_bit up to the end of write_line: the command "N <address>"
\* goes to the UART and _collect_short_window sets its deadline; when
\* write_line raises (port not open, short write) the router logs the error
\* and returns False.
InjectConfigBit ==
    /\ sem_pc \in {"idle", "returned"}
    /\ Len(uart_tx) < MaxCommands
    /\ \E address \in LfaAddresses, written \in BOOLEAN :
          IF written
          THEN /\ uart_tx' = Append(uart_tx, <<"N", address>>)
               /\ sem_deadline' = sem_clock + ShortWindow
               /\ sem_pc' = "collect"
               /\ lfa_result' = FALSE
               /\ UNCHANGED sem_emitted
          ELSE /\ uart_tx' = Append(uart_tx, <<"RuntimeError", address>>)
               /\ sem_deadline' = sem_clock
               /\ sem_pc' = "returned"
               /\ lfa_result' = FALSE
               \* nothing reached the SEM: it owes no answer to this command
               /\ sem_emitted' = sem_emitted + Len(SemResponse)
    /\ collected' = <<>>
    /\ read_calls' = 0
    /\ UNCHANGED <<sem_clock, rx_lines, sem_log>>
    /\ UNCHANGED <<buildVars, poolVars, ctor_args, ctor_outcome, made,
                   factoryVars, mainVars, transportVars, campaignVars>>

\* One iteration of _collect_short_window's loop: read_lines drains the lines
\* the reader thread has framed, or, the queue being empty, waits out its
\* timeout and returns nothing.
ReadLines ==
    /\ sem_pc = "collect"
    /\ sem_clock < sem_deadline
    /\ read_calls' = read_calls + 1
    /\ IF rx_lines # <<>>
       THEN /\ collected' = collected \o rx_lines
            /\ rx_lines' = <<>>
            /\ UNCHANGED sem_clock
       ELSE /\ sem_clock' = sem_clock + ReadTimeout
            /\ UNCHANGED <<collected, rx_lines>>
    /\ UNCHANGED <<sem_pc, uart_tx, sem_emitted, sem_deadline, sem_log, lfa_result>>
    /\ UNCHANGED <<buildVars, poolVars, ctor_args, ctor_outcome, made,
                   factoryVars, mainVars, transportVars, campaignVars>>

\* The window has closed: log_sem_command records the command with the lines
\* collected, inject_lfa returns None and _inject_config_bit returns True.
CollectDone ==
    /\ sem_pc = "collect"
    /\ sem_clock >= sem_deadline
    /\ sem_log' = Append(sem_log, [command |-> uart_tx[Len(uart_tx)],
                                   response |-> collected])
    /\ sem_pc' = "returned"
    /\ lfa_result' = TRUE
    /\ UNCHANGED <<sem_clock, uart_tx, rx_lines, sem_emitted, sem_deadline,
                   collected, read_calls>>
    /\ UNCHANGED <<buildVars, poolVars, ctor_args, ctor_outcome, made,
                   factoryVars, mainVars, transportVars, campaignVars>>

\* The reader thread frames the next line of the SEM's answer to a command
\* already written; a SEM that stays silent never takes this step.
SemResponds ==
    /\ sem_emitted < Len(SemResponse) * Len(uart_tx)
    /\ rx_lines' = Append(rx_lines, SemResponse[(sem_emitted % Len(SemResponse)) + 1])
    /\ sem_emitted' = sem_emitted + 1
    /\ UNCHANGED <<sem_pc, sem_clock, uart_tx, sem_deadline, collected,
                   read_calls, sem_log, lfa_result>>
    /\ UNCHANGED <<buildVars, poolVars, ctor_args, ctor_outcome, made,
                   factoryVars, mainVars, transportVars, campaignVars>>

\* ------------------------------------------- main, after time_profile.run

LogCampaignEndParameters == 1   \* def log_campaign_end(stats)

LogCampaignEndArguments == 2    \* log_campaign_end(stats, termination_reason)

\* InjectionController.get_stats.
get_stats ==
    [total |-> total_injections, successes |-> successes, failures |-> failures,
     termination_reason |-> termination_reason]

\* The call log_campaign_end(stats, termination_reason) of main: Python
\* raises TypeError before the body runs when the number of positional
\* arguments is not the number of parameters; the body logs the statistics.
log_campaign_end(stats, reason) ==
    IF LogCampaignEndArguments # LogCampaignEndParameters
    THEN [raises |-> TRUE, logged |-> None]
    ELSE [raises |-> FALSE, logged |-> <<[stats |-> stats, reason |-> reason]>>]

\* main from the end of time_profile.run(controller) to its return value:
\* the statistics are read and logged and main returns 0; an exception,
\* out of run() or out of the logging call, is caught by `except Exception`
\* and main returns 1.
MainAfterRun ==
    /\ tpc \in Ended
    /\ exit_code = None
    /\ IF tpc = "raised"
       THEN /\ exit_code' = <<1>>
            /\ UNCHANGED campaign_end_log
       ELSE LET stats == get_stats
                call == log_campaign_end(stats, stats.termination_reason)
            IN  /\ campaign_end_log' = call.logged
                /\ exit_code' = IF call.raises THEN <<1>> ELSE <<0>>
    /\ UNCHANGED <<buildVars, poolVars, ctor_args, ctor_outcome, made,
                   factoryVars, semVars, transportVars, campaignVars>>

\* ------------------------------------- SemTransport: the framed line queue

MaxLines == 3           \* lines the reader thread frames in one run

MaxReturns == 3         \* read_lines calls that return in one run

MaxTimeout == 1         \* longest timeout_s passed to read_lines, in ticks

MaxTransportTime == 2   \* the clock runs up to here

\* What every step of the reader thread and of read_lines leaves alone.
TransportFrame ==
    /\ UNCHANGED <<sem_pc, uart_tx, sem_emitted, sem_deadline, collected,
                   read_calls, sem_log, lfa_result>>
    /\ UNCHANGED <<buildVars, poolVars, ctor_args, ctor_outcome, made,
                   factoryVars, mainVars, campaignVars>>

\* _reader_loop, for one framed non-empty line: under the condition's lock
\* the line is appended to _lines and every waiting caller is notified.
\* Lines carry their arrival number.
ReaderLoop ==
    /\ cv_owner = "free"
    /\ Len(framed) < MaxLines
    /\ LET line == Len(framed) + 1
       IN  /\ rx_lines' = Append(rx_lines, line)
           /\ framed' = Append(framed, line)
    /\ rl_pc' = [c \in Callers |-> IF rl_pc[c] = "waiting" THEN "woken" ELSE rl_pc[c]]
    /\ UNCHANGED <<cv_owner, rl_out, rl_deadline, returned, sem_clock>>
    /\ TransportFrame

\* read_lines(timeout_s) is called: the deadline is set, out is empty.
read_lines(c) ==
    /\ rl_pc[c] = "idle"
    /\ Len(returned) < MaxReturns
    /\ \E timeout_s \in 0..MaxTimeout :
          rl_deadline' = [rl_deadline EXCEPT ![c] = sem_clock + timeout_s]
    /\ rl_out' = [rl_out EXCEPT ![c] = <<>>]
    /\ rl_pc' = [rl_pc EXCEPT ![c] = "acquire"]
    /\ UNCHANGED <<cv_owner, framed, returned, rx_lines, sem_clock>>
    /\ TransportFrame

\* `with self._cv:` on entry, and the lock taken again when wait() returns.
Acquire(c) ==
    /\ rl_pc[c] \in {"acquire", "woken"}
    /\ cv_owner = "free"
    /\ cv_owner' = c
    /\ rl_pc' = [rl_pc EXCEPT ![c] = "drain"]
    /\ UNCHANGED <<rl_out, rl_deadline, framed, returned, rx_lines, sem_clock>>
    /\ TransportFrame

\* Mutant: the oldest line is read and left in the queue.
popleft_Peek(q) == [line |-> Head(q), rest |-> q]

\* deque.popleft: the oldest line and the queue without it.
popleft(q) == [line |-> Head(q), rest |-> Tail(q)]

\* One iteration of `while self._lines: out.append(self._lines.popleft())`.
Drain(c) ==
    /\ rl_pc[c] = "drain"
    /\ rx_lines # <<>>
    /\ rl_out' = [rl_out EXCEPT ![c] = Append(@, popleft(rx_lines).line)]
    /\ rx_lines' = popleft(rx_lines).rest
    /\ UNCHANGED <<cv_owner, rl_pc, rl_deadline, framed, returned, sem_clock>>
    /\ TransportFrame

\* read_lines returns out; the lock is released on the way.
ReturnLines(c) ==
    /\ returned' = Append(returned, [caller |-> c, lines |-> rl_out[c],
                                     at |-> sem_clock, deadline |-> rl_deadline[c],
                                     queued |-> Len(rx_lines)])
    /\ cv_owner' = "free"
    /\ rl_pc' = [rl_pc EXCEPT ![c] = "idle"]

\* The queue is drained: read_lines returns what it has; with nothing in
\* hand it returns when the deadline has passed and otherwise waits on the
\* condition, which releases the lock.
AfterDrain(c) ==
    /\ rl_pc[c] = "drain"
    /\ rx_lines = <<>>
    /\ IF rl_out[c] # <<>> \/ rl_deadline[c] - sem_clock <= 0
       THEN ReturnLines(c)
       ELSE /\ cv_owner' = "free"
            /\ rl_pc' = [rl_pc EXCEPT ![c] = "waiting"]
            /\ UNCHANGED returned
    /\ UNCHANGED <<rl_out, rl_deadline, framed, rx_lines, sem_clock>>
    /\ TransportFrame

\* self._cv.wait(timeout=remaining) runs out of time.
WaitTimesOut(c) ==
    /\ rl_pc[c] = "waiting"
    /\ sem_clock >= rl_deadline[c]
    /\ rl_pc' = [rl_pc EXCEPT ![c] = "woken"]
    /\ UNCHANGED <<cv_owner, rl_out, rl_deadline, framed, returned, rx_lines, sem_clock>>
    /\ TransportFrame

\* time.monotonic() advances.
TransportTick ==
    /\ sem_clock < MaxTransportTime
    /\ sem_clock' = sem_clock + 1
    /\ UNCHANGED <<cv_owner, rl_pc, rl_out, rl_deadline, framed, returned, rx_lines>>
    /\ TransportFrame

\* ------------------------------------------------------------------ Init

EmptyLibrary ==
    [m \in ModuleNames |-> [config |-> <<>>, reg |-> <<>>, config_idx |-> 0, reg_idx |-> 0]]

InitRatioSelector ==
    /\ builder \in {"sequential", "random"}
    /\ ratio \in Ratios
    /\ repeat \in BOOLEAN
    /\ ratio_strict \in BOOLEAN
    /\ break_repeat_only \in BOOLEAN
    /\ target_count \in TargetCounts
    /\ absolute_cap \in AbsCaps
    /\ \E nC \in 0..MaxLen, nR \in 0..MaxLen :
          /\ config_targets = Candidates("CONFIG", "device", nC)
          /\ reg_targets = Candidates("REG", "device", nR)
    /\ max_iterations =
          IF builder = "sequential"
          THEN SequentialMaxIterations(break_repeat_only, repeat, target_count,
                   absolute_cap, Len(config_targets), Len(reg_targets))
          ELSE RandomMaxIterations(break_repeat_only, repeat, target_count,
                   absolute_cap, Len(config_targets), Len(reg_targets))
    /\ module_library = EmptyLibrary
    /\ weights = <<1, 1, 1>>
    /\ module_mode = "round_robin"

\* Weights as _parse_weights yields them for three modules; their total is
\* positive (an all-zero vector makes rng.choices raise).
WeightVectors == {<<1, 1, 1>>, <<1, 2, 1>>, <<2, 0, 1>>}

\* The library with nC[m] CONFIG and nR[m] REG candidates for module m, as
\* _build_module_library leaves it (both cursors at 0).
Library(nC, nR) ==
    [m \in ModuleNames |->
        [config |-> Candidates("CONFIG", m, nC[m]),
         reg |-> Candidates("REG", m, nR[m]),
         config_idx |-> 0, reg_idx |-> 0]]

\* Two-level runs that vary what is selected: every library shape, module
\* mode, weight vector, ratio, repeat and strictness, under the default size
\* policy with a requested size of MaxCount.
InitTwoLevelSelection ==
    /\ builder = "two_level"
    /\ ratio \in Ratios
    /\ repeat \in BOOLEAN
    /\ ratio_strict \in BOOLEAN
    /\ break_repeat_only = TRUE
    /\ target_count = <<MaxCount>>
    /\ absolute_cap = MaxCap
    /\ \E nC \in [ModuleNames -> 0..MaxModLen], nR \in [ModuleNames -> 0..MaxModLen] :
          module_library = Library(nC, nR)
    /\ weights \in WeightVectors
    /\ module_mode \in ModuleModes

\* Two-level runs that vary the size policy: every requested size, cap and
\* break_repeat_only, on a full library and on a library of one module.
InitTwoLevelSizing ==
    /\ builder = "two_level"
    /\ ratio \in Ratios
    /\ repeat \in BOOLEAN
    /\ ratio_strict \in BOOLEAN
    /\ break_repeat_only \in BOOLEAN
    /\ target_count \in TargetCounts
    /\ absolute_cap \in AbsCaps
    /\ \E full \in BOOLEAN :
          module_library =
              Library([m \in ModuleNames |-> IF full \/ m = "alu" THEN MaxModLen ELSE 0],
                      [m \in ModuleNames |-> IF full \/ m = "alu" THEN MaxModLen ELSE 0])
    /\ weights = <<1, 1, 1>>
    /\ module_mode = "round_robin"

InitTwoLevel ==
    /\ (InitTwoLevelSelection \/ InitTwoLevelSizing)
    /\ max_iterations = TwoLevelMaxIterations(break_repeat_only, repeat, target_count,
                            absolute_cap, TotalAvailable(module_library))
    /\ config_targets = <<>>
    /\ reg_targets = <<>>

\* The worked example of the ratio documentation: 10 CONFIG and 3 REG
\* candidates at ratio 0.5 without repeat, under the default size policy and
\* the default absolute cap; for the two-level builder all in module alu.
InitExample ==
    /\ builder \in {"sequential", "two_level"}
    /\ ratio = <<1, 2>>
    /\ repeat = FALSE
    /\ ratio_strict \in BOOLEAN
    /\ break_repeat_only = TRUE
    /\ target_count = <<>>
    /\ absolute_cap = TPOOL_ABSOLUTE_CAP
    /\ weights = <<1, 1, 1>>
    /\ module_mode = "round_robin"
    /\ IF builder = "sequential"
       THEN /\ config_targets = Candidates("CONFIG", "device", 10)
            /\ reg_targets = Candidates("REG", "device", 3)
            /\ module_library = EmptyLibrary
            /\ max_iterations = SequentialMaxIterations(break_repeat_only, repeat,
                                    target_count, absolute_cap, 10, 3)
       ELSE /\ config_targets = <<>>
            /\ reg_targets = <<>>
            /\ module_library = Library([m \in ModuleNames |-> IF m = "alu" THEN 10 ELSE 0],
                                        [m \in ModuleNames |-> IF m = "alu" THEN 3 ELSE 0])
            /\ max_iterations = TwoLevelMaxIterations(break_repeat_only, repeat,
                                    target_count, absolute_cap,
                                    TotalAvailable(module_library))

InitBuild ==
    /\ (InitRatioSelector \/ InitTwoLevel \/ InitExample)
    /\ config_idx = 0
    /\ reg_idx = 0
    /\ available_config = config_targets
    /\ available_reg = reg_targets
    /\ config_selected = 0
    /\ reg_selected = 0
    /\ pick_reg = FALSE
    /\ iteration = 0
    /\ pool = <<>>
    /\ pc = IF max_iterations > 0 THEN "loop" ELSE "done"
    /\ selection_counts = [m \in ModuleNames |-> 0]
    /\ round_robin_index = 0
    /\ config_count = 0
    /\ reg_count = 0
    /\ need_reg = FALSE
    /\ scheduled_module = selected_modules[1]

InitPool ==
    /\ targets = <<>>
    /\ position = 0
    /\ pop_result = <<>>
    /\ op = "init"
    /\ drained = <<>>
    /\ last_drain = <<>>

\* No builder is running (the state of the builder variables while a pool is
\* only consumed).
InitBuildIdle ==
    /\ builder = "none"
    /\ ratio = <<1, 2>>
    /\ repeat = FALSE
    /\ ratio_strict = FALSE
    /\ break_repeat_only = TRUE
    /\ target_count = <<>>
    /\ absolute_cap = TPOOL_ABSOLUTE_CAP
    /\ config_targets = <<>>
    /\ reg_targets = <<>>
    /\ config_idx = 0
    /\ reg_idx = 0
    /\ available_config = <<>>
    /\ available_reg = <<>>
    /\ config_selected = 0
    /\ reg_selected = 0
    /\ pick_reg = FALSE
    /\ max_iterations = 0
    /\ iteration = 0
    /\ pool = <<>>
    /\ pc = "done"
    /\ module_library = EmptyLibrary
    /\ weights = <<1, 1, 1>>
    /\ module_mode = "round_robin"
    /\ selection_counts = [m \in ModuleNames |-> 0]
    /\ round_robin_index = 0
    /\ config_count = 0
    /\ reg_count = 0
    /\ need_reg = FALSE
    /\ scheduled_module = selected_modules[1]

NextBuild ==
    \/ SequentialIteration
    \/ RandomIteration
    \/ TwoLevelIteration

\* The pool builders, from their inputs to the returned pool.
InitBuilders == InitBuild /\ InitPool /\ InitTargetIdle /\ InitCampaignIdle

SpecBuild == InitBuilders /\ [][NextBuild]_vars

NextPool ==
    \/ Add
    \/ AddMany
    \/ pop_next
    \/ reset

\* A TargetPool under any sequence of add, add_many, pop_next and reset.
InitTargetPool == InitBuildIdle /\ InitPool /\ InitTargetIdle /\ InitCampaignIdle

SpecPool == InitTargetPool /\ [][NextPool]_vars

NextTarget == Construct

\* Callers constructing TargetSpec objects from any arguments.
InitTargetSpec == InitBuildIdle /\ InitPool /\ InitTargetIdle /\ InitCampaignIdle

SpecTarget == InitTargetSpec /\ [][NextTarget]_vars

NextFactory ==
    \/ MakeProfile
    \/ FirstPick

InitFactory == InitBuildIdle /\ InitPool /\ InitTargetIdle /\ InitCampaignIdle

SpecFactory == InitFactory /\ [][NextFactory]_vars

NextCampaign ==
    \/ Run
    \/ UniformTop
    \/ PoissonTop
    \/ Mmpp2Top
    \/ RampTop
    \/ TraceTop
    \/ MicroburstRun
    \/ MicroburstInterval
    \/ MicroburstMid
    \/ MicroburstStopped
    \/ Sleep
    \/ inject_target
    \/ Return
    \/ Tick
    \/ signal_handler
    \/ BenchmarkStops

\* A campaign: time_profile.run(controller) over a pre-built pool, with the
\* clock, the signal handler and the benchmark as its environment.
InitCampaign == InitBuildIdle /\ InitCampaignPool /\ InitTargetIdle /\ InitController

SpecCampaign == InitCampaign /\ [][NextCampaign]_vars

\* A campaign during which the logging sink may start to fail.
NextMain == NextCampaign \/ MainAfterRun

InitMain == InitBuildIdle /\ InitCampaignPool /\ InitTargetIdle /\ InitController

SpecMain == InitMain /\ [][NextMain]_vars

NextTransport ==
    \/ ReaderLoop
    \/ TransportTick
    \/ \E c \in Callers :
          \/ read_lines(c)
          \/ Acquire(c)
          \/ Drain(c)
          \/ AfterDrain(c)
          \/ WaitTimesOut(c)

InitTransport == InitBuildIdle /\ InitPool /\ InitTargetIdle /\ InitCampaignIdle

SpecTransport == InitTransport /\ [][NextTransport]_vars

NextSem ==
    \/ InjectConfigBit
    \/ ReadLines
    \/ CollectDone
    \/ SemResponds

InitSem == InitBuildIdle /\ InitPool /\ InitTargetIdle /\ InitCampaignIdle

SpecSem == InitSem /\ [][NextSem]_vars

NextSink ==
    \/ NextCampaign
    \/ SinkBreaks

InitSink == InitBuildIdle /\ InitCampaignPool /\ InitTargetIdle /\ InitController

SpecSink == InitSink /\ [][NextSink]_vars

\* ---------------------------------------------------------------- claims

Abs(x) == IF x < 0 THEN 0 - x ELSE x

\* The number of entries of the given kind among the first n entries of p.
CountKind(p, n, kind) == Cardinality({i \in 1..n : p[i].kind = kind})

\* A loop iteration of a RatioSelector builder / of the two-level builder ran.
RatioSelectorStep == builder \in {"sequential", "random"} /\ iteration' = iteration + 1

TwoLevelStep == builder = "two_level" /\ iteration' = iteration + 1

\* The decision rule as the documentation words it, for ratio r = n/d and
\* the counters c (CONFIG) and g (REG): TRUE means Register.
RuleSaysRegister(r, c, g) ==
    \/ r[1] = r[2]
    \/ /\ r[1] # 0
       /\ \/ c + g = 0 /\ 2 * r[1] > r[2]
          \/ c + g > 0 /\ g * r[2] < (c + g) * r[1]

C2_RatioConvergence ==
    ( /\ builder \in {"sequential", "random"}
      /\ repeat
      /\ 0 < ratio[1] /\ ratio[1] < ratio[2]
      /\ Len(config_targets) > 0 /\ Len(reg_targets) > 0 )
    => LET N == config_selected + reg_selected IN
       /\ N = Len(pool)
       /\ N >= 1 => Abs(reg_selected * ratio[2] - ratio[1] * N) < ratio[2]
       /\ pc = "done" => N = max_iterations

\* C2 witness: five selections at ratio 2/3 in repeat mode, three of them
\* Registers, from lists of different lengths.
C2_Witness ==
    /\ builder = "sequential"
    /\ repeat
    /\ ratio = <<2, 3>>
    /\ Len(config_targets) = 1 /\ Len(reg_targets) = 2
    /\ config_selected + reg_selected = 5
    /\ reg_selected = 3

\* All CONFIG / REG candidates handed to the running builder.
TotalConfig ==
    Len(config_targets)
    + SumSeq([i \in ModuleIndices |-> Len(module_library[selected_modules[i]].config)])

TotalReg ==
    Len(reg_targets)
    + SumSeq([i \in ModuleIndices |-> Len(module_library[selected_modules[i]].reg)])

AllCandidates ==
    {config_targets[i] : i \in 1..Len(config_targets)}
    \cup {reg_targets[i] : i \in 1..Len(reg_targets)}
    \cup UNION {{module_library[m].config[i] : i \in 1..Len(module_library[m].config)}
                : m \in ModuleNames}
    \cup UNION {{module_library[m].reg[i] : i \in 1..Len(module_library[m].reg)}
                : m \in ModuleNames}

PureConfig == ratio[1] = 0

PureReg == ratio[1] = ratio[2]

\* C3 as claimed: at ratio 0.0 the pool holds no Register target and at ratio
\* 1.0 no ConfigBit target, in every repeat and strictness setting and every
\* builder.
C3_PureModeExactness_AsClaimed ==
    /\ PureConfig => \A i \in 1..Len(pool) : pool[i].kind # "REG"
    /\ PureReg => \A i \in 1..Len(pool) : pool[i].kind # "CONFIG"

\* C3 amended: in a pure mode a target of the other kind is appended only by
\* the lenient fallback: never under ratio_strict; without repeat only after
\* every candidate of the pure kind is in the pool; with repeat only when
\* there is no candidate of the pure kind at all, and never by the sequential
\* builder.
C3_PureModeExactness ==
    LET OnlyByFallback(other, pure, totalPure) ==
            \A i \in 1..Len(pool) :
                pool[i].kind = other =>
                    /\ ~ratio_strict
                    /\ IF repeat
                       THEN totalPure = 0 /\ builder # "sequential"
                       ELSE CountKind(pool, i - 1, pure) = totalPure
    IN  /\ PureConfig => OnlyByFallback("REG", "CONFIG", TotalConfig)
        /\ PureReg => OnlyByFallback("CONFIG", "REG", TotalReg)

\* C3 witness: a strict pure-CONFIG build without repeat ended with every
\* CONFIG candidate in the pool and the REG candidates left out.
C3_Witness ==
    /\ pc = "done"
    /\ PureConfig
    /\ ratio_strict /\ ~repeat
    /\ TotalReg > 0
    /\ TotalConfig > 0
    /\ Len(pool) = TotalConfig
    /\ Len(pool) < max_iterations

\* The worked example: 10 CONFIG and 3 REG candidates at ratio 0.5.
IsExample == TotalConfig = 10 /\ TotalReg = 3 /\ ratio = <<1, 2>>

\* Every entry of p has the kind the ratio rule asks for at its position.
FollowsRule(p) ==
    \A i \in 1..Len(p) :
        (p[i].kind = "REG")
            = RuleSaysRegister(ratio, CountKind(p, i - 1, "CONFIG"),
                               CountKind(p, i - 1, "REG"))

StrictSequential == builder = "sequential" /\ ratio_strict /\ ~repeat

\* C4 as claimed: the strict non-repeat example pool has length exactly 6,
\* and in strict non-repeat mode nothing is appended after the last candidate
\* of the kind that is used up first.
C4_StrictExhaustion_AsClaimed ==
    (StrictSequential /\ pc = "done") =>
        /\ IsExample => Len(pool) = 6
        /\ (reg_idx = Len(reg_targets) /\ config_idx < Len(config_targets)
              /\ Len(reg_targets) > 0)
             => pool[Len(pool)].kind = "REG"
        /\ (config_idx = Len(config_targets) /\ reg_idx < Len(reg_targets)
              /\ Len(config_targets) > 0)
             => pool[Len(pool)].kind = "CONFIG"

\* C4 amended: in strict non-repeat mode the sequential builder stops at the
\* first position where the ratio rule asks for a kind whose candidates are
\* used up, and not before: every entry has the kind the rule asked for, and
\* a finished build either used its whole budget, used up both lists, or was
\* asked for an exhausted kind.  The example pool has length exactly 7
\* (4 ConfigBit + 3 Register).
C4_StrictExhaustion ==
    StrictSequential =>
        /\ FollowsRule(pool)
        /\ pc = "done" =>
            /\ \/ Len(pool) = max_iterations
               \/ config_idx = Len(config_targets) /\ reg_idx = Len(reg_targets)
               \/ IF RuleSaysRegister(ratio, config_selected, reg_selected)
                  THEN reg_idx = Len(reg_targets)
                  ELSE config_idx = Len(config_targets)
            /\ IsExample =>
                /\ Len(pool) = 7
                /\ CountKind(pool, 7, "CONFIG") = 4
                /\ CountKind(pool, 7, "REG") = 3

\* C4 witness: the strict example build has ended, with a ConfigBit appended
\* after the last Register candidate.
C4_Witness ==
    /\ StrictSequential /\ IsExample
    /\ pc = "done"
    /\ reg_idx = Len(reg_targets)
    /\ pool[Len(pool)].kind = "CONFIG"

\* No size limit is in force: no size is requested or the policy ignores it,
\* and the absolute cap is not below the number of candidates.
NoSizeLimit ==
    /\ break_repeat_only \/ target_count = <<>>
    /\ TotalConfig + TotalReg <= absolute_cap

\* C5: lenient exhaustion fills with the majority kind.  With ratio_strict
\* false, repeat false and no size limit in force, the finished pool holds
\* every candidate exactly once (13 entries for the example), in the
\* sequential, random and two-level builders.
C5_LenientExhaustion ==
    (pc = "done" /\ ~ratio_strict /\ ~repeat /\ NoSizeLimit) =>
        /\ Len(pool) = TotalConfig + TotalReg
        /\ {pool[i] : i \in 1..Len(pool)} = AllCandidates
        /\ IsExample => Len(pool) = 13

\* C5 witness: the lenient example build has ended after falling back to the
\* majority kind.
C5_Witness ==
    /\ pc = "done"
    /\ builder = "sequential"
    /\ ~ratio_strict /\ IsExample
    /\ Len(pool) = 13
    /\ pool[13].kind = "CONFIG" /\ pool[12].kind = "CONFIG"

\* C6 as claimed: the pool never has more than absolute_cap entries; when a
\* requested size n >= 0 is given and constrains the result (repeat, or
\* break_repeat_only false) it has at most min(n, absolute_cap) entries; in
\* non-repeat mode with break_repeat_only the bound is
\* min(total candidates, absolute_cap).
C6_SizeBound_AsClaimed ==
    /\ Len(pool) <= absolute_cap
    /\ (target_count # <<>> /\ (repeat \/ ~break_repeat_only))
         => Len(pool) <= Min(target_count[1], absolute_cap)
    /\ (~repeat /\ break_repeat_only)
         => Len(pool) <= Min(TotalConfig + TotalReg, absolute_cap)

\* Whether the module's library entry can supply a target of the kind asked
\* for (need = TRUE: Register): its cursor is inside the list, or the list
\* is non-empty and may be cycled.
CanSupply(lib, need) ==
    LET list == IF need THEN lib.reg ELSE lib.config
        cursor == IF need THEN lib.reg_idx ELSE lib.config_idx
    IN  cursor < Len(list) \/ (repeat /\ Len(list) > 0)

Suppliers(need) ==
    {i \in ModuleIndices : CanSupply(module_library[selected_modules[i]], need)}

KindOf(need) == IF need THEN "REG" ELSE "CONFIG"

\* C7: two-level builder, step 4.  At a position where some selected module
\* can supply the needed kind, one target is appended, it has the needed
\* kind, and it comes from the scheduled module if that module can supply
\* it and otherwise from the first other module, in selected_modules order,
\* that can.
C7_SameKindFromOtherModule ==
    [][ (TwoLevelStep /\ Suppliers(need_reg') # {}) =>
            /\ Len(pool') = Len(pool) + 1
            /\ LET t == pool'[Len(pool')]
                   first == CHOOSE i \in Suppliers(need_reg') :
                                \A j \in Suppliers(need_reg') : i <= j
               IN  /\ t.kind = KindOf(need_reg')
                   /\ t.module =
                        IF CanSupply(module_library[scheduled_module'], need_reg')
                        THEN scheduled_module'
                        ELSE selected_modules[first]
      ]_vars

\* C7 witness: the scheduled module (lsu) had no target of the needed kind
\* and both other modules had one; the target came from another module.
C7_Witness ==
    /\ builder = "two_level"
    /\ Len(pool) = iteration
    /\ Len(pool) > 0
    /\ scheduled_module = "lsu"
    /\ pool[Len(pool)].module = "alu"
    /\ pool[Len(pool)].kind = KindOf(need_reg)
    /\ CanSupply(module_library["fpu"], need_reg)

\* C8: two-level builder under ratio_strict.  Building stops at the first
\* position where no module can supply the needed kind (nothing is appended
\* and the loop ends), so every entry of the pool has exactly the kind the
\* global ratio rule required at its position.
C8_StrictTwoLevel ==
    [][ (TwoLevelStep /\ ratio_strict) =>
            /\ FollowsRule(pool')
            /\ Suppliers(need_reg') = {} => (pool' = pool /\ pc' = "done")
            /\ Suppliers(need_reg') # {} => Len(pool') = Len(pool) + 1
      ]_vars

\* C8 witness: a strict two-level build stopped before its budget was used,
\* with targets of the other kind still available.
C8_Witness ==
    /\ builder = "two_level"
    /\ ratio_strict
    /\ pc = "done"
    /\ Len(pool) > 0
    /\ iteration = Len(pool) + 1
    /\ iteration < max_iterations
    /\ Suppliers(need_reg) = {}
    /\ Suppliers(~need_reg) # {}

\* The modules that still have any target.
Available ==
    {i \in ModuleIndices : \/ CanSupply(module_library[selected_modules[i]], TRUE)
                           \/ CanSupply(module_library[selected_modules[i]], FALSE)}

\* weight/total_weight * total_selections - selection_counts, times
\* total_weight.
ScaledDeficit(i) ==
    weights[i] * Len(pool) - selection_counts[selected_modules[i]] * SumSeq(weights)

\* C9: two-level builder in lenient mode.  At a position where no module
\* can supply the needed kind, the target is taken from the module of
\* maximal deficit among the modules that still have any target (ties to the
\* earliest in list order) and is counted under the kind it has; building
\* stops only when no module has any target left or the budget is reached.
C9_LenientRebalance ==
    [][ (TwoLevelStep /\ ~ratio_strict) =>
            /\ (Suppliers(need_reg') = {} /\ Available # {}) =>
                 /\ Len(pool') = Len(pool) + 1
                 /\ LET t == pool'[Len(pool')]
                        best == CHOOSE i \in Available :
                                   /\ \A j \in Available : ScaledDeficit(j) <= ScaledDeficit(i)
                                   /\ \A j \in Available :
                                         ScaledDeficit(j) = ScaledDeficit(i) => i <= j
                    IN  /\ t.module = selected_modules[best]
                        /\ t.kind # KindOf(need_reg')
                        /\ reg_count' = reg_count + (IF t.kind = "REG" THEN 1 ELSE 0)
                        /\ config_count' = config_count + (IF t.kind = "CONFIG" THEN 1 ELSE 0)
                        /\ selection_counts' =
                             [selection_counts EXCEPT ![t.module] = @ + 1]
            /\ pc' = "done" => (Available = {} \/ iteration' >= max_iterations)
      ]_vars

\* C9 witness: a lenient build took a target of the other kind from lsu
\* while alu, equally behind, had no target left.
C9_Witness ==
    /\ builder = "two_level"
    /\ ~ratio_strict
    /\ Len(pool) = iteration
    /\ Len(pool) >= 2
    /\ pool[Len(pool)].kind # KindOf(need_reg)
    /\ pool[Len(pool)].module = "lsu"
    /\ selection_counts["fpu"] = 0

\* C10: TargetPool cursor invariant.  After any sequence of add, add_many,
\* pop_next and reset, 0 <= position <= length; the position never decreases
\* except by reset; pop_next on an exhausted pool returns None and leaves
\* the position unchanged, and otherwise returns the entry at the cursor and
\* advances the cursor by exactly one.
C10_CursorInvariant ==
    [][ /\ 0 <= position' /\ position' <= Len(targets')
        /\ op' # "reset" => position' >= position
        /\ op' = "pop_next" =>
             IF position >= Len(targets)
             THEN pop_result' = <<>> /\ position' = position
             ELSE pop_result' = <<targets[position + 1]>> /\ position' = position + 1
      ]_vars

\* C10 witness: pop_next on a drained pool of three targets returned None
\* and left the cursor at the end.
C10_Witness ==
    /\ op = "pop_next"
    /\ pop_result = <<>>
    /\ Len(targets) = 3
    /\ position = 3

\* C11: TargetPool frame conditions.  add and add_many only extend the tail
\* and leave every existing entry (value and index) and the cursor unchanged;
\* reset sets the cursor to 0 and leaves the contents unchanged; pop_next
\* leaves the contents unchanged.
C11_FrameConditions ==
    [][ /\ op' = "add" =>
             /\ Len(targets') = Len(targets) + 1
             /\ SubSeq(targets', 1, Len(targets)) = targets
             /\ position' = position
        /\ op' = "add_many" =>
             /\ Len(targets') >= Len(targets)
             /\ SubSeq(targets', 1, Len(targets)) = targets
             /\ position' = position
        /\ op' = "reset" => (position' = 0 /\ targets' = targets)
        /\ op' = "pop_next" => targets' = targets
      ]_vars

\* C11 witness: a batch was added behind a pool already partly consumed.
C11_Witness ==
    /\ op = "add_many"
    /\ position = 2
    /\ Len(targets) = 4
    /\ targets[1] # targets[2]

\* C12: pool cursor idempotence.  What pop_next has handed out since the
\* last reset is the first `position` entries in insertion order; when it
\* returns None that is every entry, each once; and a drain repeated after
\* a reset reproduces the previous drain.
C12_ResetAndDrain ==
    /\ drained = SubSeq(targets, 1, position)
    /\ (op = "pop_next" /\ pop_result = <<>>) =>
          /\ drained = targets
          /\ last_drain # <<>> =>
                last_drain[1] = SubSeq(drained, 1, Len(last_drain[1]))

\* C12 witness: a pool of three targets, reset from the middle of a drain
\* and then drained to None for the second time, with the same result.
C12_Witness ==
    /\ op = "pop_next"
    /\ pop_result = <<>>
    /\ last_drain # <<>>
    /\ Len(drained) = 3
    /\ drained = last_drain[1]
    /\ drained[1] # drained[2]

MissingRequired(args) ==
    \/ args.kind = "CONFIG" /\ args.config_address = None
    \/ args.kind = "REG" /\ args.reg_id = None

\* C13: target validation.  Constructing a ConfigBit target without
\* config_address, or a Register target without reg_id, raises the
\* invalid-target error (ValueError) and yields no target.
C13_TargetValidation ==
    [][ MissingRequired(ctor_args') =>
            (ctor_outcome' = "ValueError" /\ made' = made) ]_vars

\* C13 witness: after a target was constructed, a Register target without
\* reg_id (but with a config_address) was refused.
C13_Witness ==
    /\ ctor_outcome = "ValueError"
    /\ ctor_args.kind = "REG"
    /\ ctor_args.config_address # None
    /\ Len(made) = 1

\* C14 as claimed: every constructed target has exactly one of
\* config_address / reg_id populated, the one of its kind; construction
\* with both populated fails.
C14_ExactlyOneField_AsClaimed ==
    /\ \A i \in 1..Len(made) :
          /\ made[i].kind = "CONFIG" =>
                (made[i].config_address # None /\ made[i].reg_id = None)
          /\ made[i].kind = "REG" =>
                (made[i].reg_id # None /\ made[i].config_address = None)
    /\ (ctor_args.config_address # None /\ ctor_args.reg_id # None)
          => ctor_outcome # "ok"

\* A step of controller.inject_target.
InjectStep == tpc = "inject" /\ tpc' # "inject"

\* C15: inject_target routes a ConfigBit target only to the protocol
\* backend (inject_lfa with its config_address) and a Register target only
\* to the board backend (inject_register with its reg_id); when the backend
\* raises, or the register backend returns False, inject_target returns
\* False, failures grows by exactly one, and no exception reaches run().
C15_RoutingAndFailure ==
    [][ (InjectStep /\ backend_outcome' # "none") =>
            LET t == target[1]
                call == dispatched'[Len(dispatched')]
            IN  /\ Len(dispatched') = Len(dispatched) + 1
                /\ t.kind = "CONFIG" =>
                      /\ call.method = "sem_proto.inject_lfa"
                      /\ call.address = t.config_address
                /\ t.kind = "REG" =>
                      /\ call.method = "board_if.inject_register"
                      /\ call.reg_id = t.reg_id
                /\ backend_outcome' \in {"raises", "false"} =>
                      /\ inject_result' = FALSE
                      /\ failures' = failures + 1
                      /\ successes' = successes
                      /\ law # "ramp" => (exception' = "none" /\ tpc' # "raised")
      ]_vars

\* C15 witness: the board backend returned False for a Register target
\* after the SEM backend had raised for a ConfigBit target; both count as
\* failures and run() goes on.
C15_Witness ==
    /\ backend_outcome = "false"
    /\ inject_result = FALSE
    /\ failures = 2
    /\ Len(dispatched) = 2
    /\ dispatched[1].method = "sem_proto.inject_lfa"
    /\ dispatched[2].method = "board_if.inject_register"
    /\ exception = "none"
    /\ tpc = "top"

\* C16 as claimed: in each of the six laws, however the run ends, run()
\* returns and the termination reason is then not "unknown".
C16_TerminationReason_AsClaimed ==
    tpc \in Ended => (tpc = "returned" /\ termination_reason # "unknown")

\* C17 as claimed: once stop is requested the flag stays set, at most one
\* further target (the one in flight) is dispatched, and run() then
\* returns.
C17_CooperativeCancellation_AsClaimed ==
    /\ stop_at # None => stop_flag
    /\ stop_at # None => Len(dispatched) <= stop_at[1] + 1
    /\ (stop_flag /\ tpc \in Ended) => tpc = "returned"

\* The backend calls that dispatching the targets of seq, in order, makes.
Calls(seq) == [i \in 1..Len(seq) |-> BackendCall(seq[i])]

\* C18 as claimed: whenever run() returns, the targets dispatched to a
\* backend are, in order, exactly the first `position` entries of the pool.
C18_PoolOrder_AsClaimed ==
    tpc = "returned" => dispatched = Calls(SubSeq(targets, 1, position))

\* C18: whenever run() returns, the targets dispatched are, in order, the
\* first entries of the pool, and every target taken was dispatched except
\* the one in hand when the benchmark check found the signal gone: that one
\* (the entry at the cursor) is refused by the controller, only one target
\* is ever refused, and none is without benchmark sync.
C18_PoolOrder ==
    tpc = "returned" =>
        /\ dispatched = Calls(SubSeq(targets, 1, position - Len(gated)))
        /\ Len(gated) <= 1
        /\ gated # <<>> => (sync_enabled /\ ~signal_file /\ gated[1] = targets[position])

\* C18 witness: run() returned after two targets were taken, the first
\* dispatched and the second refused by the benchmark check.
C18_Witness ==
    /\ tpc = "returned"
    /\ position = 2
    /\ Len(dispatched) = 1
    /\ Len(gated) = 1
    /\ targets[1] # targets[2]

\* C19 as claimed: when a benchmark check found the signal gone, the
\* reason reported after run() returns is "Benchmark stopped".
C19_BenchmarkStopped_AsClaimed ==
    (tpc = "returned" /\ gated # <<>>) => termination_reason = "Benchmark stopped"

\* C20: uniform law.  The deadline of injection n is start_t + n * period_s
\* with n the number of injections made so far; the wait sleeps only when
\* the deadline is ahead, and then until the deadline at least; the
\* injection is made no earlier than its deadline.
C20_UniformDeadlines ==
    [][ law = "uniform" =>
          /\ (tpc = "top" /\ tpc' = "sleep") =>
                /\ deadline' = start_t + injection_count * period_s
                /\ injection_count = Len(dispatched) + Len(gated)
          /\ (tpc = "sleep" /\ tpc' = "inject") =>
                IF deadline <= clock
                THEN ~slept' /\ clock' = clock
                ELSE slept' /\ clock' >= deadline
          /\ InjectStep =>
                /\ clock >= deadline
                /\ deadline = start_t + injection_count * period_s
                /\ injection_count' = injection_count + 1
      ]_vars

\* C20 witness: the second injection of a uniform run of period 2 is about
\* to be made after its deadline has passed, without a sleep.
C20_Witness ==
    /\ law = "uniform"
    /\ tpc = "inject"
    /\ injection_count = 1
    /\ period_s = 2
    /\ deadline = start_t + 2
    /\ clock > deadline
    /\ ~slept

\* A step of run() that takes a target from the pool.
TakeStep == position' = position + 1

\* C21: Poisson law.  A target is taken only with a sampled deadline for
\* which deadline - start_t < duration_s, in the same iteration in which
\* the deadline was sampled from the clock; and when the run ends with
\* "Duration limit reached" every target taken has been dispatched.
C21_PoissonBudget ==
    [][ law = "poisson" =>
          /\ TakeStep =>
                /\ tpc = "top" /\ tpc' = "sleep"
                /\ deadline' >= clock
                /\ now' = clock
                /\ duration_s # None => deadline' - start_t < duration_s[1]
          /\ (tpc' \in {"break", "returned"}
               /\ termination_reason' = "Duration limit reached") =>
                /\ Len(dispatched') = position'
                /\ gated' = <<>>
      ]_vars

\* C21 witness: a Poisson run dispatched its first target and then ended
\* on the duration limit with a target still left in the pool.
C21_Witness ==
    /\ law = "poisson"
    /\ tpc = "returned"
    /\ termination_reason = "Duration limit reached"
    /\ position = 1
    /\ Len(dispatched) = 1
    /\ Len(targets) = 2
    /\ clock - start_t < duration_s[1]

\* C22 as claimed: in every law, once the time elapsed on the clock since
\* run() began is at least duration_s, no further target is taken from
\* the pool.
C22_WallClockCeiling_AsClaimed ==
    [][ (TakeStep /\ duration_s # None) => clock - start_t < duration_s[1] ]_vars

\* The i-th draw (from 0) of the stream of a seed.
Draw(seed, i) == seed[(i % Len(seed)) + 1]

\* The index of the first draw at or after i that is not 0.0.
RECURSIVE FirstNonZero(_, _)
FirstNonZero(seed, i) ==
    IF Draw(seed, i) = 0 THEN FirstNonZero(seed, i + 1) ELSE i

\* The low/high state k injections after the state was `state` with i
\* draws consumed: a function of the seed, the probabilities and k alone.
RECURSIVE StateAfter(_, _, _, _)
StateAfter(seed, state, i, k) ==
    IF k = 0
    THEN state
    ELSE LET j == FirstNonZero(seed, i) + 1
         IN  StateAfter(seed, MaybeTransition(state, Draw(seed, j)), j + 1, k - 1)

\* C23: MMPP2 determinism.  The low/high state after the k-th injection is
\* the value of one function of the seed, the parameters and k, whatever
\* the clock, the pool and the injection outcomes were; so two profiles
\* built with the same seed and parameters go through the same states.
C23_Mmpp2Determinism ==
    law = "mmpp2" =>
        mm_state = StateAfter(rng.seed, start_state, 0, Len(dispatched) + Len(gated))

\* C23 witness: after one failed and one successful injection, the second
\* made late, an MMPP2 profile whose seed has a 0.0 draw has left its
\* start state.
C23_Witness ==
    /\ law = "mmpp2"
    /\ Len(dispatched) = 2
    /\ failures = 1
    /\ successes = 1
    /\ clock > current_t
    /\ rng.seed[1] = 0
    /\ start_state = "low"
    /\ mm_state = "high"

\* A step of MicroburstTimeProfile.run that begins an interval.
IntervalBegins == tpc \in {"mb_run", "mb_mid"} /\ tpc' = "mb_interval"

\* C24: microburst.  At most `bursts` bursts are completed; intervals
\* alternate idle, burst, idle, ... starting with idle, and only a finished
\* burst interval is counted; a run that ends for another reason than stop,
\* pool exhaustion or duration_s ends with "Requested number of bursts
\* completed", and then exactly `bursts` bursts were completed.
C24_BurstCount ==
    [][ law = "microburst" =>
          /\ bursts # None => burst_count' <= bursts[1]
          /\ IntervalBegins =>
                IF tpc = "mb_run"
                THEN phase' = "idle" /\ (burst_count = 0 \/ phase = "burst")
                ELSE phase = "idle" /\ phase' = "burst"
          /\ burst_count' # burst_count =>
                /\ burst_count' = burst_count + 1
                /\ phase = "burst" /\ tpc = "mb_interval" /\ tpc' = "mb_run"
                /\ ~stop_flag
          /\ tpc' = "returned" =>
                /\ termination_reason' \in
                      {"Stop requested", "User interrupt", "Target pool exhausted",
                       "Duration limit reached", "Requested number of bursts completed"}
                /\ termination_reason' = "Requested number of bursts completed" =>
                      (bursts # None /\ burst_count' = bursts[1])
      ]_vars

\* C24 witness: a run asked for two bursts completed both, the pool not
\* exhausted, and ended with the burst-count reason.
C24_Witness ==
    /\ law = "microburst"
    /\ tpc = "returned"
    /\ bursts = <<2>>
    /\ burst_count = 2
    /\ Len(dispatched) = 1
    /\ Len(targets) = 2
    /\ termination_reason = "Requested number of bursts completed"

\* The configured duration of the interval in progress.
IntervalDuration == IF phase = "idle" THEN idle_duration_s ELSE burst_duration_s

\* The time at which the interval in progress is to end: its start plus its
\* configured duration, or campaign_start + duration_s if that is earlier.
IntervalEnd ==
    IF duration_s = None
    THEN interval_start + IntervalDuration
    ELSE Min(interval_start + IntervalDuration, start_t + duration_s[1])

\* C25 as claimed: unless stop or pool exhaustion ends it, an interval of
\* a microburst run does not end before its configured duration, cut to
\* what is left of duration_s, is over, and takes no further target once
\* that time is reached.
C25_IntervalLength_AsClaimed ==
    [][ (law = "microburst" /\ tpc = "mb_interval" /\ ~stop_flag) =>
          /\ tpc' \in {"mb_mid", "mb_run"} => clock >= IntervalEnd
          /\ TakeStep => clock < IntervalEnd
      ]_vars

\* The start and end rates of a ramp, in Hz.
RampRates == 1..2

\* C26 as claimed: ramp.  After each injection the next deadline advances
\* by the local period 1/rate(t), with rate(t) the linear interpolation
\* between the start and the end rate at the elapsed time of that step, and
\* run() goes on to its next iteration.
C26_RampLaw_AsClaimed ==
    [][ (law = "ramp" /\ InjectStep) =>
          /\ tpc' = "top"
          /\ exception' = "none"
          /\ \E sr \in RampRates, er \in RampRates :
                LET rate == current_rate(now - start_t, sr, er, duration_s[1])
                IN  deadline' * rate[1] = deadline * rate[1] + rate[2]
      ]_vars

\* The inject_target calls run() has made.
Injections == Len(dispatched) + Len(gated)

\* C27: trace replay.  Entries are replayed in schedule order, cycle after
\* cycle; the deadline of an entry is cycle_start plus its offset, with
\* cycle_start read from the clock when the cycle begins; no entry is taken
\* once duration_s has elapsed; the run can end only on stop, exhaustion,
\* duration or completion, and a completed run without a stop has dispatched
\* exactly repeat * len(schedule) targets.
C27_TraceReplay ==
    [][ law = "trace" =>
          /\ TakeStep =>
                /\ Injections = cycle * Len(schedule) + entry
                /\ deadline' = cycle_start + schedule[entry + 1]
                /\ duration_s # None => clock - start_t < duration_s[1]
          /\ cycle' # cycle =>
                /\ cycle' = cycle + 1 /\ cycle' < trace_repeat
                /\ entry + 1 = Len(schedule) /\ entry' = 0
                /\ cycle_start' = clock
          /\ cycle_start' # cycle_start => (cycle' # cycle \/ tpc = "start")
          /\ tpc' = "returned" =>
                /\ termination_reason' \in
                      {"Stop requested", "User interrupt", "Target pool exhausted",
                       "Duration limit reached", "Schedule completed",
                       "Schedule completed (N cycles)"}
                /\ termination_reason' = "Schedule completed" => trace_repeat = 1
                /\ termination_reason' = "Schedule completed (N cycles)" => trace_repeat > 1
                /\ termination_reason' \in {"Schedule completed",
                                            "Schedule completed (N cycles)"} =>
                      /\ Injections = trace_repeat * Len(schedule)
                      /\ ~stop_flag => Len(dispatched) = trace_repeat * Len(schedule)
      ]_vars

\* C27 witness: a one-entry schedule replayed for two cycles, the second
\* anchored later than the first, completed with both targets dispatched.
C27_Witness ==
    /\ law = "trace"
    /\ tpc = "returned"
    /\ schedule = <<0>>
    /\ trace_repeat = 2
    /\ cycle = 1
    /\ cycle_start > start_t
    /\ Len(dispatched) = 2
    /\ ~stop_flag
    /\ termination_reason = "Schedule completed (N cycles)"

\* The arguments the claim calls bad: a ratio outside [0, 1], a rate that
\* is not positive, a required parameter that is missing.
NonPositive(value) == value # None /\ value[1] <= 0

BadArgument(a) ==
    CASE a.factory = "uniform" ->
            \/ NonPositive(a.rate_hz) \/ NonPositive(a.period_s)
            \/ (a.rate_hz = None /\ a.period_s = None)
      [] a.factory = "poisson" -> ~Positive(a.rate_hz)
      [] a.factory = "mmpp2" -> ~Positive(a.low_hz) \/ ~Positive(a.high_hz)
      [] a.factory = "microburst" ->
            \/ ~Positive(a.burst_rate_hz)
            \/ a.burst_duration_s = None \/ a.idle_duration_s = None
      [] a.factory = "ramp" -> NonPositive(a.start_rate_hz) \/ NonPositive(a.end_rate_hz)
      [] a.factory = "ratio_selector" -> a.ratio[1] < 0 \/ a.ratio[1] > a.ratio[2]
      [] OTHER -> FALSE

\* C28 as claimed: a factory called with a bad argument raises, so no
\* object built from one exists and no target is ever picked with one.
C28_EagerErrors_AsClaimed ==
    /\ BadArgument(factory_args) => factory_outcome # "ok"
    /\ \A i \in 1..Len(constructed) : ~BadArgument(constructed[i])

\* C29 as claimed: when the logging sink fails while an injection is being
\* recorded, inject_target still returns the dispatch outcome, the
\* statistics reflect the dispatch, and no exception reaches run().
C29_SinkIsolation_AsClaimed ==
    [][ (InjectStep /\ log_sink = "failing" /\ backend_outcome' # "none") =>
          /\ inject_result' = (backend_outcome' = "ok")
          /\ total_injections' = total_injections + 1
          /\ successes' + failures' = successes + failures + 1
          /\ exception' # "OSError"
      ]_vars

\* C30 as claimed: inject_lfa is fire-and-forget; once the command is written
\* it returns with no read_lines call made and no time spent waiting.
C30_FireAndForget_AsClaimed ==
    (sem_pc = "returned" /\ lfa_result) =>
        /\ read_calls = 0
        /\ sem_clock = sem_deadline - ShortWindow

\* The draw rng.random() returns next.
NextDraw == Draw(rng.seed, rng.pos)

\* The low/high state flips in this step.
Flips == mm_state' # mm_state

\* The flip _maybe_transition's rule asks for with the next draw.
FlipDue ==
    \/ mm_state = "low" /\ NextDraw < p_low_to_high
    \/ mm_state = "high" /\ NextDraw < p_high_to_low

\* C31 as claimed: the state changes only by the draw made after a
\* successful injection.
C31_TransitionRule_AsClaimed ==
    [][ Flips => (InjectStep /\ inject_result') ]_vars

\* C31, amended: an MMPP2 profile starts in start_state; the state changes
\* only in the step in which inject_target returns (whatever it returns),
\* by exactly one draw, from low to high iff the draw is below
\* p_low_to_high and from high to low iff it is below p_high_to_low; and
\* the inter-arrival time added when a target is taken is the one sampled
\* at the rate of the state current at that time.
C31_TransitionRule ==
    [][ law = "mmpp2" =>
          /\ (Injections = 0 => mm_state = start_state)
          /\ (Flips => InjectStep /\ tpc' # "raised")
          /\ (InjectStep /\ tpc' # "raised" =>
                 /\ rng'.pos = rng.pos + 1
                 /\ Flips <=> FlipDue)
          /\ (tpc = "top" /\ tpc' = "sleep" =>
                 /\ ~Flips
                 /\ current_t' - current_t =
                      InterArrival(Draw(rng.seed, FirstNonZero(rng.seed, rng.pos)),
                                   mm_state)
                 /\ rng'.pos = FirstNonZero(rng.seed, rng.pos) + 1)
      ]_vars

\* C31 witness: an MMPP2 profile that has left its start state after one
\* failed injection and, later, took a target at the rate of the new state.
C31_Witness ==
    /\ law = "mmpp2"
    /\ Len(dispatched) = 1
    /\ failures = 1
    /\ start_state = "low"
    /\ mm_state = "high"
    /\ tpc = "sleep"
    /\ position = 2

\* The rate of the interval in hand, in injections per clock tick: the
\* burst rate is 1 and the idle rate is idle_rate_hz.
IntervalRate == IF phase = "idle" THEN idle_rate_hz ELSE 1

\* A target is taken for the k-th injection (k = interval_k) of an
\* active microburst interval.
IntervalTake == law = "microburst" /\ tpc = "mb_interval" /\ tpc' = "sleep"

\* C32 as claimed: the k-th injection of an interval of rate R has the
\* deadline interval_start + k/R.
C32_UniformInInterval_AsClaimed ==
    [][ IntervalTake =>
          IntervalRate * (deadline' - interval_start) = interval_k ]_vars

\* C32, amended: inside an active interval the spacing is the sampled one
\* (a Poisson process): the deadline of an injection is the time read when
\* it is scheduled plus the inter-arrival time drawn, so it is never before
\* that time, never before the previous deadline of the interval and never
\* after the interval's end; k counts the targets taken.
C32_PoissonInInterval ==
    [][ IntervalTake =>
          /\ deadline' >= clock
          /\ deadline' <= interval_start + IntervalDuration
          /\ interval_k > 0 => deadline' >= deadline
          /\ interval_k' = interval_k + 1 ]_vars

\* C32 witness: the second target of a burst interval has been taken, for
\* a deadline that is not the interval start plus one period.
C32_Witness ==
    /\ law = "microburst"
    /\ phase = "burst"
    /\ tpc = "sleep"
    /\ interval_k = 2
    /\ deadline # interval_start + 1

\* How many entries of the sequence s are x.
Occurrences(s, x) == Cardinality({i \in 1..Len(s) : s[i] = x})

\* C33: single-pass consumption.  With repeat false, at every point of a
\* build by the sequential, the random or the two-level builder, every
\* pool entry is a candidate and no candidate is in the pool more often
\* than it is among the candidates (here: once).
C33_SinglePass ==
    ~repeat =>
        \A i \in 1..Len(pool) :
            /\ pool[i] \in AllCandidates
            /\ Occurrences(pool, pool[i]) <= 1

\* C33 witness: a lenient random build without repeat has ended with
\* every candidate placed, the last ones by falling back to the other kind.
C33_Witness ==
    /\ builder = "random"
    /\ ~repeat /\ ~ratio_strict
    /\ pc = "done"
    /\ Len(config_targets) = 2 /\ Len(reg_targets) = 1
    /\ Len(pool) = 3
    /\ pool[3].kind = "CONFIG" /\ pool[2].kind = "CONFIG"

\* How many pool entries were drawn from the library of module m.
DrawnFrom(m) == Cardinality({i \in 1..Len(pool) : pool[i].module = m})

\* C34: two-level builder bookkeeping.  After every position built,
\* config_count + reg_count, the pool length and the sum of
\* selection_counts agree; reg_count is the number of REG entries of the
\* pool, config_count that of CONFIG entries, and selection_counts[m] the
\* number of entries drawn from module m's library.
C34_TwoLevelBookkeeping ==
    builder = "two_level" =>
        /\ config_count + reg_count = Len(pool)
        /\ SumSeq([i \in ModuleIndices |-> selection_counts[selected_modules[i]]])
              = Len(pool)
        /\ reg_count = CountKind(pool, Len(pool), "REG")
        /\ config_count = CountKind(pool, Len(pool), "CONFIG")
        /\ \A m \in ModuleNames : selection_counts[m] = DrawnFrom(m)

\* C34 witness: a two-level build has ended with entries of both kinds
\* drawn unevenly from two modules.
C34_Witness ==
    /\ builder = "two_level"
    /\ pc = "done"
    /\ reg_count >= 1 /\ config_count >= 2
    /\ selection_counts["alu"] >= 2
    /\ selection_counts["lsu"] = 1

\* C35: controller statistics.  Whatever inject_target calls were made
\* (success, backend returning False, backend exception, early return
\* because the benchmark stopped), total = successes + failures; a call
\* adds one to total and to exactly one of successes and failures, or, on
\* the early return, changes nothing; no counter ever decreases and
\* nothing but inject_target changes one.
C35_Statistics ==
    [][ /\ total_injections = successes + failures
        /\ total_injections' = successes' + failures'
        /\ total_injections' \in {total_injections, total_injections + 1}
        /\ successes' >= successes
        /\ failures' >= failures
        /\ total_injections' # total_injections => InjectStep /\ backend_outcome' # "none"
        /\ (InjectStep /\ backend_outcome' = "none") =>
               total_injections' = total_injections
        /\ (InjectStep /\ backend_outcome' = "ok") => successes' = successes + 1
        /\ (InjectStep /\ backend_outcome' \in {"false", "raises"}) =>
               failures' = failures + 1
      ]_vars

\* C35 witness: a campaign has seen an injection fail by a backend
\* exception and then an early return because the benchmark stopped.
C35_Witness ==
    /\ Len(gated) = 1
    /\ Len(dispatched) = 1
    /\ successes = 0
    /\ failures = 1
    /\ total_injections = 1
    /\ tpc \in Ended

\* A check of the signal file is due: enough time, or enough injections,
\* since the last one.
CheckDue ==
    \/ clock - last_check_time >= check_interval_s
    \/ sync_count >= check_every_n

\* inject_target dispatches in this step / returns early in this step.
Dispatches == InjectStep /\ Len(dispatched') = Len(dispatched) + 1

Refuses == InjectStep /\ Len(gated') = Len(gated) + 1

\* The bookkeeping of the hybrid check: sync_count is the number of
\* injections dispatched since the signal file was last checked.  A call
\* of inject_target checks the file iff a check is due; a check resets the
\* time and the count (and the call then dispatches, counting one, or
\* returns early if the file is gone); a call that does not check
\* dispatches and counts one; nothing else touches the two.
HybridBookkeeping ==
    /\ ~InjectStep => UNCHANGED <<sync_count, last_check_time>>
    /\ (InjectStep /\ CheckDue /\ signal_file) =>
           Dispatches /\ sync_count' = 1 /\ last_check_time' = clock
    /\ (InjectStep /\ CheckDue /\ ~signal_file) =>
           Refuses /\ sync_count' = 0 /\ last_check_time' = clock
    /\ (InjectStep /\ ~CheckDue) =>
           Dispatches /\ sync_count' = sync_count + 1
                      /\ last_check_time' = last_check_time

\* C36 as claimed: at most check_every_n injections are dispatched between
\* two consecutive checks of the signal file.
C36_HybridCheckBound_AsClaimed ==
    [][ sync_enabled => HybridBookkeeping /\ sync_count' <= check_every_n ]_vars

\* C36, amended: a check is due iff the time since the last check is
\* >= check_interval_s or the injections since it are >= check_every_n;
\* every check resets both, so at most max(check_every_n, 1) injections are
\* dispatched between two consecutive checks (the call that checks
\* dispatches its own target when the file is there).
C36_HybridCheckBound ==
    [][ sync_enabled =>
          /\ HybridBookkeeping
          /\ sync_count' <= (IF check_every_n >= 1 THEN check_every_n ELSE 1)
      ]_vars

\* C36 witness: with check_every_n = 1 the first target was dispatched
\* without a check and the second call, the count being reached, checked
\* the file and dispatched.
C36_Witness ==
    /\ sync_enabled
    /\ check_every_n = 1
    /\ Len(dispatched) = 2
    /\ sync_count = 1
    /\ last_check_time > 1
    /\ clock - last_check_time < check_interval_s

\* C37 as claimed: once the signal handler has set the reason "User
\* interrupt" it stays, so that it is the reason found after run() returns,
\* wherever in the scheduling loop the signal arrived.
C37_StopAttribution_AsClaimed ==
    [][ termination_reason = "User interrupt" =>
          termination_reason' = "User interrupt" ]_vars

\* C38 as claimed: whenever time_profile.run(controller) returns normally,
\* main logs the campaign end with the final statistics and termination
\* reason and returns exit code 0.
C38_NormalCompletion_AsClaimed ==
    (tpc = "returned" /\ exit_code # None) =>
        /\ exit_code = <<0>>
        /\ campaign_end_log = <<[stats |-> get_stats, reason |-> termination_reason]>>

\* The lines of the first n returns, in the order returned.
RECURSIVE ReturnedLines(_)
ReturnedLines(n) ==
    IF n = 0 THEN <<>> ELSE ReturnedLines(n - 1) \o returned[n].lines

\* The lines popped by read_lines calls that have not returned yet.
InHand == IF cv_owner = "free" THEN <<>> ELSE rl_out[cv_owner]

\* C39: transport line queue.  Under every interleaving of the reader
\* thread with two read_lines callers, the lines returned so far, those a
\* call has in hand and those still queued are, in this order, exactly the
\* lines framed: each line is returned by one call only, none is lost and
\* the arrival order is kept; a call that does not hold the lock has nothing
\* in hand; and a call returns an empty list only at or after its deadline,
\* with the queue empty.
C39_LineQueue ==
    /\ ReturnedLines(Len(returned)) \o InHand \o rx_lines = framed
    /\ \A c \in Callers : c # cv_owner => rl_out[c] = <<>> \/ rl_pc[c] = "idle"
    /\ \A i \in 1..Len(returned) :
          returned[i].lines = <<>> =>
              returned[i].at >= returned[i].deadline /\ returned[i].queued = 0

\* C39 witness: the two callers have each returned lines, a third line was
\* framed while a call was waiting, and a call has timed out empty.
C39_Witness ==
    /\ Len(returned) = 3
    /\ \E i, j, k \in 1..3 :
          /\ returned[i].caller = "main" /\ returned[i].lines # <<>>
          /\ returned[j].caller = "monitor" /\ returned[j].lines # <<>>
          /\ returned[k].lines = <<>> /\ returned[k].deadline > 0
    /\ Len(framed) = 3

====
